---- MODULE Spec2Model ----
(***************************************************************************)
(* Blindodon mastodon-core: the IPC request router (ipc/handler.rs), the   *)
(* pending-OAuth slot and remote client (api/client.rs), the account and   *)
(* settings store (cache/mod.rs) and the message envelope                  *)
(* (models/ipc_message.rs).                                                *)
(*                                                                         *)
(* Strings that the code computes with (URLs, account ids, tokens) are     *)
(* sequences of tokens; method names, keys and error texts are literals.   *)
(* Every handler is split at its .await points that touch shared state:    *)
(* one action per lock acquisition or SQL statement.  A remote call reads  *)
(* no state of this process, so its (nondeterministic) outcome is chosen   *)
(* in the step that follows it.                                            *)
(*                                                                         *)
(* Specifications:                                                         *)
(*   Spec            one connection, the authentication methods, process   *)
(*                   restarts and the clock, from the empty database;      *)
(*   SpecConcurrent  two connections at once on the stored accounts;       *)
(*   SpecRouter      one connection, every method of handle_message with   *)
(*                   absent, malformed and valid params;                   *)
(*   SpecObserved    SpecRouter with the session at the time a message was *)
(*                   taken up kept as history;                             *)
(*   SpecOAuth       two connections starting and completing OAuth flows;  *)
(*   SpecServer      the listener, two peers and the lines on their wires  *)
(*                   (SpecServerLive: with the runtime's scheduling);      *)
(*   SpecStreaming   one StreamManager, two start_stream calls, stop_all;  *)
(*   SpecCache       one caller of the accounts table: save, save again,   *)
(*                   read, delete, read;                                   *)
(*   SpecConcurrentStoreOk  SpecConcurrent where every statement succeeds; *)
(*   SpecSnapshot    requests to the instance on one connection, changes   *)
(*                   of the session on the other;                          *)
(*   SpecTyped       the router given every method under every envelope    *)
(*                   type;                                                 *)
(*   SpecShutdownRequest  the listener, a peer asking for shutdown and a   *)
(*                   peer yet to connect;                                  *)
(*   SpecTimeline    one timeline.get, the limit absent, 0, 1 and 2.       *)
(***************************************************************************)
EXTENDS Integers, Sequences, FiniteSets, TLC

VARIABLES
    client,              \* MessageHandler.client: Option<Arc<MastodonClient>>
    current_account_id,  \* MessageHandler.current_account_id: Option<String>
    accounts,            \* cache: table accounts, id -> row
    settings,            \* cache: table settings, key -> value
    PENDING_OAUTH,       \* api/client.rs: static PENDING_OAUTH
    pending_readers,     \* connections holding a read guard of PENDING_OAUTH
    now,                 \* the wall clock (Utc::now / CURRENT_TIMESTAMP)
    boot,                \* position of MessageHandler::initialize
    pc,                  \* per connection: position of its handler task
    msg,                 \* per connection: the message being handled
    local,               \* per connection: the handler's local variables
    response,            \* per connection: the value handle_message returned
    calls,               \* per connection: remote calls made for this message
    session_at_entry,    \* history, for the connections in its domain: the
                         \* session slots as they were when the message was
                         \* taken up
    wire,                \* history, for the connections in its domain: the
                         \* lines read from the peer and the responses written
    listener,            \* ipc/server.rs: position of run_unix_socket_server
    shutdown_signal,     \* the listener's broadcast receiver holds a signal
    socket_path,         \* the file PIPE_NAME exists
    streams,             \* streaming/mod.rs: the start_stream calls
    cache_call           \* cache/mod.rs: a caller of the account functions,
                         \* its position, arguments and results

vars == <<client, current_account_id, accounts, settings, PENDING_OAUTH,
          pending_readers, now, boot, pc, msg, local, response, calls,
          session_at_entry, wire, listener, shutdown_signal, socket_path,
          streams, cache_call>>

sessionVars == <<client, current_account_id>>
storeVars == <<accounts, settings>>
oauthVars == <<PENDING_OAUTH, pending_readers>>

-----------------------------------------------------------------------------
(* Bounds and input sets *)

MaxClock == 1

Conns == {"c1", "c2"}
Ids == {"1", "2"}
Users == {"alice"}

\* Raw instance_url parameters the UI sends.
UrlA == <<"https://", "a.example">>
UrlB == <<"https://", "b.example">>
InstanceUrls == {UrlA, UrlB}

\* another spelling of a.example's URL: a trailing slash
UrlASlash == <<"https://", "a.example", "/">>

-----------------------------------------------------------------------------
(* Option and JSON values *)

None == [some |-> FALSE]
Some(x) == [some |-> TRUE, v |-> x]
IsSome(o) == o.some
IsNone(o) == ~o.some

\* serde_json::Value leaves; v is the token sequence of a string's or a
\* number's text, the element sequence of an array
JStr(s) == [t |-> "str", v |-> s]
JNum(s) == [t |-> "num", v |-> s]
JBool(b) == [t |-> "bool", v |-> IF b THEN <<"true">> ELSE <<"false">>]
JArray(s) == [t |-> "array", v |-> s]
\* {"variant": {"field": arg}}, the form of an enum variant with a field
JVariant(variant, arg) == [t |-> "variant", v |-> <<variant, arg>>]

\* params: Option<Value>; an object is a function from keys to values, any
\* other JSON value has no keys
JObject(f) == [kind |-> "object", fields |-> f]
JScalar == [kind |-> "scalar", fields |-> <<>>]
EmptyObject == JObject(<<>>)

\* Value::get(key): None unless the value is an object holding the key
Get(params, key) ==
    IF params.kind = "object" /\ key \in DOMAIN params.fields
    THEN Some(params.fields[key]) ELSE None

\* .and_then(|v| v.as_str())
AsStr(o) == IF IsSome(o) /\ o.v.t = "str" THEN Some(o.v.v) ELSE None

\* .and_then(|v| v.as_bool())
AsBool(o) == IF IsSome(o) /\ o.v.t = "bool" THEN Some(o.v.v = <<"true">>) ELSE None

-----------------------------------------------------------------------------
(* models/ipc_message.rs *)

PARSE_ERROR == -32700
INVALID_REQUEST == -32600
METHOD_NOT_FOUND == -32601
INVALID_PARAMS == -32602
INTERNAL_ERROR == -32603
NOT_AUTHENTICATED == -1001
RATE_LIMITED == -1002
NETWORK_ERROR == -1003
API_ERROR == -1004
ENCRYPTION_ERROR == -1005

\* methods::*: the method names handle_message matches on
PING == "ping"
SHUTDOWN == "shutdown"
AUTH_START == "auth.start"
AUTH_CALLBACK == "auth.callback"
AUTH_LOGOUT == "auth.logout"
AUTH_GET_ACCOUNTS == "auth.get_accounts"
AUTH_SWITCH_ACCOUNT == "auth.switch_account"
AUTH_DELETE_ACCOUNT == "auth.delete_account"
SETTINGS_GET == "settings.get"
SETTINGS_SET == "settings.set"
SETTINGS_GET_ALL == "settings.get_all"
TIMELINE_GET == "timeline.get"
POST_CREATE == "post.create"
POST_BOOST == "post.boost"
POST_UNBOOST == "post.unboost"
POST_FAVOURITE == "post.favourite"
POST_UNFAVOURITE == "post.unfavourite"
NOTIFICATIONS_GET == "notifications.get"
NOTIFICATIONS_CLEAR == "notifications.clear"
NOTIFICATIONS_DISMISS == "notifications.dismiss"
MEDIA_UPLOAD == "media.upload"
INSTANCE_GET == "instance.get"

\* the match arms of handle_message
Methods ==
    {PING, SHUTDOWN, AUTH_START, AUTH_CALLBACK, AUTH_LOGOUT, AUTH_GET_ACCOUNTS,
     AUTH_SWITCH_ACCOUNT, AUTH_DELETE_ACCOUNT, SETTINGS_GET, SETTINGS_SET,
     SETTINGS_GET_ALL, TIMELINE_GET, POST_CREATE, POST_BOOST, POST_UNBOOST,
     POST_FAVOURITE, POST_UNFAVOURITE, NOTIFICATIONS_GET, NOTIFICATIONS_CLEAR,
     NOTIFICATIONS_DISMISS, MEDIA_UPLOAD, INSTANCE_GET}

IpcError(code, message) == [code |-> code, message |-> message, data |-> None]

response_ok(id, result) ==
    [id |-> id, message_type |-> "response", method |-> None, params |-> None,
     result |-> Some(result), error |-> None]

\* a mutation of response_err: the id is not the request's
response_err_unknown_id(id, error) ==
    [id |-> "unknown", message_type |-> "response", method |-> None,
     params |-> None, result |-> None, error |-> Some(error)]

response_err(id, error) ==
    [id |-> id, message_type |-> "response", method |-> None, params |-> None,
     result |-> None, error |-> Some(error)]

\* msg.method.as_deref().unwrap_or("unknown")
MethodOf(m) == IF IsSome(m.method) THEN m.method.v ELSE "unknown"

\* A line as the peer wrote it: bytes that are not UTF-8, white space only,
\* text that is no JSON object, or a JSON object with the fields the
\* envelope knows (None: the field is not there).
InvalidUtf8 == [kind |-> "invalid_utf8"]
Blank == [kind |-> "blank"]
NotJson == [kind |-> "text"]
ObjectLine(id, type, method, params) ==
    [kind |-> "object", id |-> id, type |-> type, method |-> method,
     params |-> params]

MessageTypes == {"request", "response", "event"}

\* serde_json::to_string of a message the peer sends
to_string(m) ==
    ObjectLine(Some(m.id), Some(m.message_type), m.method, m.params)

\* serde_json::from_str::<IpcMessage>(trimmed): id and type are required
from_str(line) ==
    IF /\ line.kind = "object"
       /\ IsSome(line.id)
       /\ IsSome(line.type)
       /\ line.type.v \in MessageTypes
    THEN Some([id |-> line.id.v, message_type |-> line.type.v,
               method |-> line.method, params |-> line.params,
               result |-> None, error |-> None])
    ELSE None

-----------------------------------------------------------------------------
(* api/client.rs: pure helpers *)

RECURSIVE TrimStart(_)
TrimStart(s) ==
    IF s # <<>> /\ Head(s) = " " THEN TrimStart(Tail(s)) ELSE s

RECURSIVE TrimEnd(_, _)
TrimEnd(s, ch) ==
    IF s # <<>> /\ s[Len(s)] = ch THEN TrimEnd(SubSeq(s, 1, Len(s) - 1), ch) ELSE s

\* str::replace(tok, "")
RECURSIVE Remove(_, _)
Remove(s, tok) ==
    IF s = <<>> THEN <<>>
    ELSE IF Head(s) = tok THEN Remove(Tail(s), tok)
    ELSE <<Head(s)>> \o Remove(Tail(s), tok)

normalize_url(url) ==
    LET trimmed == TrimEnd(TrimStart(url), " ")
        withScheme ==
            IF trimmed # <<>> /\ Head(trimmed) \in {"http://", "https://"}
            THEN trimmed
            ELSE <<"https://">> \o trimmed
    IN  TrimEnd(withScheme, "/")

MastodonClient(instance_url, access_token) ==
    [instance_url |-> instance_url, access_token |-> access_token]

from_token(instance_url, access_token) ==
    MastodonClient(normalize_url(instance_url), access_token)

-----------------------------------------------------------------------------
(* The remote service (megalodon): what its answers can be *)

\* app registration answered for an instance
RegisteredApp(instance_url) ==
    [client_id |-> <<"client_id:">> \o instance_url,
     client_secret |-> <<"client_secret:">> \o instance_url]

\* the access token the instance issues to a user
TokenOf(user, instance_url) == <<"token:", user, "@">> \o Remove(instance_url, "https://")

\* the user a token belongs to (verify_account_credentials)
UserOfToken(token) == [username |-> token[2]]

-----------------------------------------------------------------------------
(* models/account.rs and cache/mod.rs: the accounts and settings tables *)

\* DateTime::to_rfc3339 and SQLite's CURRENT_TIMESTAMP write different texts
\* for the same instant; `now` counts days, the part both texts start with.
Rfc3339(t) == [t |-> t, fmt |-> "rfc3339"]
CurrentTimestamp(t) == [t |-> t, fmt |-> "sql"]

\* the StoredAccount built by handle_auth_callback
StoredAccount(id, instance_url, username, access_token, t) ==
    [id |-> id, instance_url |-> instance_url, username |-> username,
     access_token |-> access_token, refresh_token |-> None,
     added_at |-> t, last_used_at |-> t, is_default |-> TRUE,
     blindodon_pm_private_key |-> None]

\* a mutation of Serialize: the tokens are not skipped
Serialize_with_tokens(account) ==
    [id |-> account.id, instance_url |-> account.instance_url,
     username |-> account.username, access_token |-> account.access_token,
     refresh_token |-> account.refresh_token, added_at |-> account.added_at,
     last_used_at |-> account.last_used_at, is_default |-> account.is_default]

\* #[derive(Serialize)] with skip_serializing on the tokens and on the
\* private key
Serialize(account) ==
    [id |-> account.id, instance_url |-> account.instance_url,
     username |-> account.username, added_at |-> account.added_at,
     last_used_at |-> account.last_used_at, is_default |-> account.is_default]

\* serde_json::from_str(&data), where a skipped field takes its default,
\* then the tokens restored from their columns
Deserialize(row) ==
    [id |-> row.data.id, instance_url |-> row.data.instance_url,
     username |-> row.data.username,
     access_token |-> row.access_token, refresh_token |-> row.refresh_token,
     added_at |-> row.data.added_at, last_used_at |-> row.data.last_used_at,
     is_default |-> row.data.is_default,
     blindodon_pm_private_key |-> None]

\* INSERT ... ON CONFLICT(id) DO UPDATE SET access_token, refresh_token, data,
\* last_used_at, is_default
save_account_sql(table, account) ==
    LET id == account.id
        fresh == [instance_url |-> account.instance_url,
                  username |-> account.username,
                  access_token |-> account.access_token,
                  refresh_token |-> account.refresh_token,
                  data |-> Serialize(account),
                  created_at |-> Rfc3339(account.added_at),
                  last_used_at |-> Rfc3339(account.last_used_at),
                  is_default |-> account.is_default]
    IN  IF id \in DOMAIN table
        THEN [table EXCEPT ![id] =
                [@ EXCEPT !.access_token = fresh.access_token,
                          !.refresh_token = fresh.refresh_token,
                          !.data = fresh.data,
                          !.last_used_at = fresh.last_used_at,
                          !.is_default = fresh.is_default]]
        ELSE [k \in DOMAIN table \cup {id} |->
                IF k = id THEN fresh ELSE table[k]]

\* DELETE FROM accounts WHERE id = ?
delete_account_sql(table, id) ==
    [k \in DOMAIN table \ {id} |-> table[k]]

\* UPDATE accounts SET is_default = 0
clear_default_sql(table) ==
    [k \in DOMAIN table |-> [table[k] EXCEPT !.is_default = FALSE]]

\* UPDATE accounts SET is_default = 1, last_used_at = CURRENT_TIMESTAMP WHERE id = ?
set_default_sql(table, id, t) ==
    [k \in DOMAIN table |->
        IF k = id
        THEN [table[k] EXCEPT !.is_default = TRUE,
                              !.last_used_at = CurrentTimestamp(t)]
        ELSE table[k]]

\* text order of the last_used_at column: the date, then "T" after " "
LastUsedLess(a, b) ==
    \/ a.t < b.t
    \/ a.t = b.t /\ a.fmt = "sql" /\ b.fmt = "rfc3339"

\* SELECT ... WHERE id = ?  (get_account)
get_account(table, id) ==
    IF id \in DOMAIN table THEN Some(Deserialize(table[id])) ELSE None

\* SELECT ... ORDER BY last_used_at DESC: the orders SQLite may return
AccountOrders(table) ==
    LET n == Cardinality(DOMAIN table)
    IN  {s \in [1..n -> DOMAIN table] :
            /\ \A i, j \in 1..n : i # j => s[i] # s[j]
            /\ \A i, j \in 1..n :
                  i < j => ~LastUsedLess(table[s[i]].last_used_at,
                                         table[s[j]].last_used_at)}

\* get_accounts: the rows, deserialized, in one of those orders
get_accounts(table, order) ==
    [i \in 1..Len(order) |-> Deserialize(table[order[i]])]

\* the account list as json!() serializes it
SerializeAll(list) == [i \in 1..Len(list) |-> Serialize(list[i])]

\* the outcomes of one SQL statement: done, or an sqlx error
SqlOutcomes == {"ok", "err"}
\* the outcomes of one remote call
RemoteOutcomes == {"ok", "err"}

-----------------------------------------------------------------------------
(* State at process start *)

AccountId(username, instance_url) ==
    <<username, "@">> \o Remove(Remove(instance_url, "https://"), "http://")

\* what a completed auth.callback leaves in the accounts table
TableAfterCallback(table, instance_url, username, t) ==
    LET id == AccountId(username, instance_url)
        url == normalize_url(instance_url)
        account == StoredAccount(id, url, username, TokenOf(username, url), t)
    IN  set_default_sql(clear_default_sql(save_account_sql(table, account)), id, t)

EmptyTable == [k \in {} |-> k]
TableA == TableAfterCallback(EmptyTable, UrlA, "alice", 0)
TableAB == TableAfterCallback(TableA, UrlB, "alice", 0)

\* The database file outlives the process: a start finds the table as an
\* earlier run left it.
InitialTables == {EmptyTable, TableA, TableAB}

NoLocal == [h |-> "none"]
NoCacheCall == [pc |-> "none"]

\* the process has started on the database an earlier run left; obs are the
\* connections whose session history is kept
Started(table, obs) ==
    /\ client = None
    /\ current_account_id = None
    /\ accounts = table
    /\ settings = [k \in {} |-> k]
    /\ PENDING_OAUTH = None
    /\ pending_readers = {}
    /\ now = 0
    /\ boot = [pc |-> "start"]
    /\ pc = [c \in Conns |-> "read"]
    /\ msg = [c \in Conns |-> None]
    /\ local = [c \in Conns |-> NoLocal]
    /\ response = [c \in Conns |-> None]
    /\ calls = [c \in Conns |-> {}]
    /\ session_at_entry = [c \in obs |-> None]
    /\ wire = [c \in {} |-> c]
    /\ listener = "listening"
    /\ shutdown_signal = FALSE
    /\ socket_path = TRUE
    /\ streams = [s \in {} |-> s]
    /\ cache_call = NoCacheCall

Fresh(table) == Started(table, {})

\* the first start, on an empty database
Init == Fresh(EmptyTable)

\* a later start, on the accounts earlier runs stored
InitStored == \E table \in InitialTables : Fresh(table)

connVars == <<pc, msg, local, response, calls, session_at_entry, wire>>

\* the listener and the streaming relay
ioVars == <<listener, shutdown_signal, socket_path, streams, cache_call>>

\* The process ends (at any point) and is started again: the database stays,
\* everything in memory is lost.
restart ==
    /\ boot.pc # "start"
    /\ client' = None
    /\ current_account_id' = None
    /\ PENDING_OAUTH' = None
    /\ pending_readers' = {}
    /\ boot' = [pc |-> "start"]
    /\ pc' = [c \in Conns |-> "read"]
    /\ msg' = [c \in Conns |-> None]
    /\ local' = [c \in Conns |-> NoLocal]
    /\ response' = [c \in Conns |-> None]
    /\ calls' = [c \in Conns |-> {}]
    /\ session_at_entry' = [c \in DOMAIN session_at_entry |-> None]
    /\ UNCHANGED <<storeVars, now, wire, ioVars>>

\* a day passes
Tick ==
    /\ now < MaxClock
    /\ now' = now + 1
    /\ UNCHANGED <<sessionVars, storeVars, oauthVars, boot, connVars, ioVars>>

-----------------------------------------------------------------------------
(* ipc/handler.rs: MessageHandler::initialize *)

\* first statement of get_default_account: the row flagged default, if any
initialize ==
    /\ boot.pc = "start"
    /\ UNCHANGED <<sessionVars, storeVars, oauthVars, now, connVars, ioVars>>
    /\ \E sql \in SqlOutcomes :
        IF sql = "err"
        THEN boot' = [pc |-> "failed"]
        ELSE LET flagged == {k \in DOMAIN accounts : accounts[k].is_default}
             IN  IF flagged = {}
                 THEN boot' = [pc |-> "query_recent"]
                 ELSE \E k \in flagged :
                        boot' = [pc |-> "verify",
                                 account |-> Deserialize(accounts[k])]

\* second statement of get_default_account: the most recently used row
initialize_query_recent ==
    /\ boot.pc = "query_recent"
    /\ UNCHANGED <<sessionVars, storeVars, oauthVars, now, connVars, ioVars>>
    /\ \E sql \in SqlOutcomes :
        IF sql = "err"
        THEN boot' = [pc |-> "failed"]
        ELSE IF DOMAIN accounts = {}
             THEN boot' = [pc |-> "done"]
             ELSE \E order \in AccountOrders(accounts) :
                    boot' = [pc |-> "verify",
                             account |-> Deserialize(accounts[order[1]])]

\* a mutation of initialize_verify: an account whose token fails verification
\* is removed from the store
initialize_verify_forgets_account ==
    /\ boot.pc = "verify"
    /\ UNCHANGED <<sessionVars, settings, oauthVars, now, connVars, ioVars>>
    /\ \E generated \in RemoteOutcomes, verified \in RemoteOutcomes :
        IF generated = "err" \/ verified = "err"
        THEN /\ boot' = [pc |-> "done"]
             /\ accounts' = delete_account_sql(accounts, boot.account.id)
        ELSE /\ boot' = [pc |-> "write_client", account |-> boot.account,
                         client |-> from_token(boot.account.instance_url,
                                               boot.account.access_token)]
             /\ accounts' = accounts

\* from_token, then get_current_user
initialize_verify ==
    /\ boot.pc = "verify"
    /\ UNCHANGED <<sessionVars, storeVars, oauthVars, now, connVars, ioVars>>
    /\ \E generated \in RemoteOutcomes, verified \in RemoteOutcomes :
        IF generated = "err" \/ verified = "err"
        THEN boot' = [pc |-> "done"]
        ELSE boot' = [pc |-> "write_client", account |-> boot.account,
                      client |-> from_token(boot.account.instance_url,
                                            boot.account.access_token)]

initialize_write_client ==
    /\ boot.pc = "write_client"
    /\ client' = Some(boot.client)
    /\ boot' = [pc |-> "write_id", account |-> boot.account]
    /\ UNCHANGED <<current_account_id, storeVars, oauthVars, now, connVars, ioVars>>

initialize_write_id ==
    /\ boot.pc = "write_id"
    /\ current_account_id' = Some(boot.account.id)
    /\ boot' = [pc |-> "default_clear", account |-> boot.account]
    /\ UNCHANGED <<client, storeVars, oauthVars, now, connVars, ioVars>>

\* set_default_account, first statement; an error skips the second
initialize_default_clear ==
    /\ boot.pc = "default_clear"
    /\ UNCHANGED <<sessionVars, settings, oauthVars, now, connVars, ioVars>>
    /\ \E sql \in SqlOutcomes :
        IF sql = "err"
        THEN accounts' = accounts /\ boot' = [pc |-> "done"]
        ELSE /\ accounts' = clear_default_sql(accounts)
             /\ boot' = [pc |-> "default_set", account |-> boot.account]

initialize_default_set ==
    /\ boot.pc = "default_set"
    /\ UNCHANGED <<sessionVars, settings, oauthVars, now, connVars, ioVars>>
    /\ boot' = [pc |-> "done"]
    /\ \E sql \in SqlOutcomes :
        accounts' = IF sql = "err" THEN accounts
                    ELSE set_default_sql(accounts, boot.account.id, now)

-----------------------------------------------------------------------------
(* ipc/handler.rs: MessageHandler::handle_message, per connection *)

\* session restore runs at process start, before any connection is served
Initialized == boot.pc = "done"

\* the connection task is waiting for a line
Reading(c) == pc[c] = "read" /\ Initialized

\* the connection task hands a parsed message to handle_message
Begin(c, m) ==
    /\ Reading(c)
    /\ msg' = [msg EXCEPT ![c] = Some(m)]
    /\ session_at_entry' =
          IF c \in DOMAIN session_at_entry
          THEN [session_at_entry EXCEPT
                    ![c] = Some(<<client, current_account_id>>)]
          ELSE session_at_entry
    /\ wire' = IF c \in DOMAIN wire
               THEN [wire EXCEPT ![c].in = Append(@, to_string(m))]
               ELSE wire

\* what a step of a handler leaves alone besides the variables it names; the
\* step that takes the message up has recorded the session in Begin
Frame(c) ==
    /\ UNCHANGED ioVars
    /\ IF pc[c] = "read" THEN TRUE ELSE UNCHANGED <<session_at_entry, wire>>

\* the handler goes on to its next .await
Goto(c, label, l) ==
    /\ pc' = [pc EXCEPT ![c] = label]
    /\ local' = [local EXCEPT ![c] = l]
    /\ UNCHANGED response
    /\ Frame(c)

\* handle_message returns r
Return(c, r, l) ==
    /\ pc' = [pc EXCEPT ![c] = "respond"]
    /\ local' = [local EXCEPT ![c] = l]
    /\ response' = [response EXCEPT ![c] = Some(r)]
    /\ Frame(c)

\* a call of the remote client
Called(c, names) == calls' = [calls EXCEPT ![c] = @ \cup names]

Err(m, code, text) == response_err(m.id, IpcError(code, text))

\* the connection task writes the response and reads the next line
\* a mutation of write_response: the loop goes back to its read with
\* the response never written
write_response_unwritten(c) ==
    /\ pc[c] = "respond"
    /\ pc' = [pc EXCEPT ![c] = "read"]
    /\ msg' = [msg EXCEPT ![c] = None]
    /\ local' = [local EXCEPT ![c] = NoLocal]
    /\ response' = [response EXCEPT ![c] = None]
    /\ calls' = [calls EXCEPT ![c] = {}]
    /\ session_at_entry' =
          IF c \in DOMAIN session_at_entry
          THEN [session_at_entry EXCEPT ![c] = None] ELSE session_at_entry
    /\ UNCHANGED <<sessionVars, storeVars, oauthVars, now, boot, ioVars, wire>>

write_response(c) ==
    /\ pc[c] = "respond"
    /\ pc' = [pc EXCEPT ![c] = "read"]
    /\ msg' = [msg EXCEPT ![c] = None]
    /\ local' = [local EXCEPT ![c] = NoLocal]
    /\ response' = [response EXCEPT ![c] = None]
    /\ calls' = [calls EXCEPT ![c] = {}]
    /\ session_at_entry' =
          IF c \in DOMAIN session_at_entry
          THEN [session_at_entry EXCEPT ![c] = None] ELSE session_at_entry
    /\ wire' = IF c \in DOMAIN wire
               THEN [wire EXCEPT ![c].out = Append(@, response[c].v)]
               ELSE wire
    /\ UNCHANGED <<sessionVars, storeVars, oauthVars, now, boot, ioVars>>

-----------------------------------------------------------------------------
(* auth.start: handle_auth_start and MastodonClient::start_auth *)

handle_auth_start(c, m) ==
    /\ MethodOf(m) = AUTH_START
    /\ Begin(c, m)
    /\ UNCHANGED <<sessionVars, storeVars, oauthVars, now, boot>>
    /\ LET instance_url ==
               IF IsSome(m.params)
               THEN AsStr(Get(m.params.v, "instance_url")) ELSE None
       IN  IF IsNone(m.params)
           THEN Return(c, Err(m, INVALID_PARAMS, "Missing params"), NoLocal)
                /\ UNCHANGED calls
           ELSE IF IsNone(instance_url)
           THEN Return(c, Err(m, INVALID_PARAMS, "Missing instance_url"), NoLocal)
                /\ UNCHANGED calls
           ELSE \E generated \in RemoteOutcomes, registered \in RemoteOutcomes :
                  IF generated = "err"
                  THEN Return(c, Err(m, API_ERROR, "Auth failed: generator"), NoLocal)
                       /\ UNCHANGED calls
                  ELSE /\ Called(c, {"register_app"})
                       /\ IF registered = "err"
                          THEN Return(c, Err(m, API_ERROR,
                                   "Auth failed: Failed to register application"),
                                   NoLocal)
                          ELSE Goto(c, "start_auth_store",
                                   [instance_url |-> normalize_url(instance_url.v)])

\* a mutation of start_auth_store: a flow already pending is kept
start_auth_store_keeps_pending(c) ==
    /\ pc[c] = "start_auth_store"
    /\ pending_readers = {}
    /\ LET url == local[c].instance_url
           app == RegisteredApp(url)
       IN  /\ PENDING_OAUTH' =
                  IF IsSome(PENDING_OAUTH) THEN PENDING_OAUTH
                  ELSE Some([client_id |-> app.client_id,
                             client_secret |-> app.client_secret,
                             instance_url |-> url])
           /\ Return(c, response_ok(msg[c].v.id,
                        [auth_url |-> url \o <<"/oauth/authorize?client_id=">>
                                          \o app.client_id,
                         state |-> <<"uuid">>]), NoLocal)
    /\ UNCHANGED <<sessionVars, storeVars, pending_readers, now, boot, msg, calls>>

\* *PENDING_OAUTH.write().await = Some(..), then the AuthResponse
start_auth_store(c) ==
    /\ pc[c] = "start_auth_store"
    /\ pending_readers = {}
    /\ LET url == local[c].instance_url
           app == RegisteredApp(url)
       IN  /\ PENDING_OAUTH' = Some([client_id |-> app.client_id,
                                     client_secret |-> app.client_secret,
                                     instance_url |-> url])
           /\ Return(c, response_ok(msg[c].v.id,
                        [auth_url |-> url \o <<"/oauth/authorize?client_id=">>
                                          \o app.client_id,
                         state |-> <<"uuid">>]), NoLocal)
    /\ UNCHANGED <<sessionVars, storeVars, pending_readers, now, boot, msg, calls>>

-----------------------------------------------------------------------------
(* auth.callback: handle_auth_callback and MastodonClient::complete_auth *)

\* a writer queued on PENDING_OAUTH keeps later readers out (tokio's RwLock
\* is fair)
PendingWriterQueued == \E w \in Conns : pc[w] = "start_auth_store"

\* a mutation of complete_auth: the recorded instance is not compared
complete_auth_any_instance(c, m, instance_url, code) ==
    LET url == normalize_url(instance_url)
    IN  /\ ~PendingWriterQueued
        /\ UNCHANGED <<PENDING_OAUTH, calls>>
        /\ IF IsNone(PENDING_OAUTH)
           THEN /\ Return(c, Err(m, API_ERROR, "Auth failed: No pending OAuth flow"),
                          NoLocal)
                /\ UNCHANGED pending_readers
           ELSE /\ pending_readers' = pending_readers \cup {c}
                /\ Goto(c, "complete_auth_fetch",
                        [raw_url |-> instance_url, instance_url |-> url,
                         app_data |-> PENDING_OAUTH.v])

\* complete_auth up to the token exchange: the read guard is taken and kept
complete_auth(c, m, instance_url, code) ==
    LET url == normalize_url(instance_url)
    IN  /\ ~PendingWriterQueued
        /\ UNCHANGED <<PENDING_OAUTH, calls>>
        /\ IF IsNone(PENDING_OAUTH)
           THEN /\ Return(c, Err(m, API_ERROR, "Auth failed: No pending OAuth flow"),
                          NoLocal)
                /\ UNCHANGED pending_readers
           ELSE IF PENDING_OAUTH.v.instance_url # url
           THEN /\ Return(c, Err(m, API_ERROR, "Auth failed: Instance URL mismatch"),
                          NoLocal)
                /\ UNCHANGED pending_readers
           ELSE \E generated \in RemoteOutcomes :
                  IF generated = "err"
                  THEN /\ Return(c, Err(m, API_ERROR, "Auth failed: generator"),
                                 NoLocal)
                       /\ UNCHANGED pending_readers
                  ELSE /\ pending_readers' = pending_readers \cup {c}
                       /\ Goto(c, "complete_auth_fetch",
                               [raw_url |-> instance_url, instance_url |-> url,
                                app_data |-> PENDING_OAUTH.v])

handle_auth_callback(c, m) ==
    /\ MethodOf(m) = AUTH_CALLBACK
    /\ Begin(c, m)
    /\ UNCHANGED <<sessionVars, storeVars, now, boot>>
    /\ LET code == IF IsSome(m.params)
                   THEN AsStr(Get(m.params.v, "code")) ELSE None
           instance_url ==
               IF IsSome(m.params)
               THEN AsStr(Get(m.params.v, "instance_url")) ELSE None
       IN  IF IsNone(m.params)
           THEN Return(c, Err(m, INVALID_PARAMS, "Missing params"), NoLocal)
                /\ UNCHANGED <<oauthVars, calls>>
           ELSE IF IsNone(code)
           THEN Return(c, Err(m, INVALID_PARAMS, "Missing code"), NoLocal)
                /\ UNCHANGED <<oauthVars, calls>>
           ELSE IF IsNone(instance_url)
           THEN Return(c, Err(m, INVALID_PARAMS, "Missing instance_url"), NoLocal)
                /\ UNCHANGED <<oauthVars, calls>>
           ELSE complete_auth(c, m, instance_url.v, code.v)

complete_auth_fetch_keeps_guard(c) ==
    /\ pc[c] = "complete_auth_fetch"
    /\ UNCHANGED <<sessionVars, storeVars, PENDING_OAUTH, pending_readers, now,
                   boot, msg>>
    /\ \E fetched \in RemoteOutcomes, generated \in RemoteOutcomes,
          verified \in RemoteOutcomes, username \in Users :
        LET m == msg[c].v
            url == local[c].instance_url
            new_client == MastodonClient(url, TokenOf(username, url))
            account_id == AccountId(username, local[c].raw_url)
        IN  IF fetched = "err"
            THEN /\ Called(c, {"fetch_access_token"})
                 /\ Return(c, Err(m, API_ERROR,
                              "Auth failed: Failed to fetch access token"), NoLocal)
            ELSE IF generated = "err"
            THEN /\ Called(c, {"fetch_access_token"})
                 /\ Return(c, Err(m, API_ERROR, "Auth failed: generator"), NoLocal)
            ELSE /\ Called(c, {"fetch_access_token", "verify_account_credentials"})
                 /\ IF verified = "err"
                    THEN Goto(c, "callback_write_client_only",
                              [client |-> new_client])
                    ELSE Goto(c, "callback_save",
                              [client |-> new_client,
                               stored_account |->
                                   StoredAccount(account_id, url, username,
                                                 new_client.access_token, now)])

\* fetch_access_token answers; the read guard is dropped when complete_auth
\* returns; then client.get_current_user()
complete_auth_fetch(c) ==
    /\ pc[c] = "complete_auth_fetch"
    /\ pending_readers' = pending_readers \ {c}
    /\ UNCHANGED <<sessionVars, storeVars, PENDING_OAUTH, now, boot, msg>>
    /\ \E fetched \in RemoteOutcomes, generated \in RemoteOutcomes,
          verified \in RemoteOutcomes, username \in Users :
        LET m == msg[c].v
            url == local[c].instance_url
            new_client == MastodonClient(url, TokenOf(username, url))
            account_id == AccountId(username, local[c].raw_url)
        IN  IF fetched = "err"
            THEN /\ Called(c, {"fetch_access_token"})
                 /\ Return(c, Err(m, API_ERROR,
                              "Auth failed: Failed to fetch access token"), NoLocal)
            ELSE IF generated = "err"
            THEN /\ Called(c, {"fetch_access_token"})
                 /\ Return(c, Err(m, API_ERROR, "Auth failed: generator"), NoLocal)
            ELSE /\ Called(c, {"fetch_access_token", "verify_account_credentials"})
                 /\ IF verified = "err"
                    THEN Goto(c, "callback_write_client_only",
                              [client |-> new_client])
                    ELSE Goto(c, "callback_save",
                              [client |-> new_client,
                               stored_account |->
                                   StoredAccount(account_id, url, username,
                                                 new_client.access_token, now)])

\* self.cache.save_account(&stored_account); an error is logged
callback_save(c) ==
    /\ pc[c] = "callback_save"
    /\ \E sql \in SqlOutcomes :
        accounts' = IF sql = "err" THEN accounts
                    ELSE save_account_sql(accounts, local[c].stored_account)
    /\ Goto(c, "callback_default_clear", local[c])
    /\ UNCHANGED <<sessionVars, settings, oauthVars, now, boot, msg, calls>>

\* a mutation of callback_default_clear: the defaults are not cleared
callback_default_clear_skipped(c) ==
    /\ pc[c] = "callback_default_clear"
    /\ \E sql \in SqlOutcomes :
        IF sql = "err"
        THEN accounts' = accounts /\ Goto(c, "callback_write_client", local[c])
        ELSE /\ accounts' = accounts
             /\ Goto(c, "callback_default_set", local[c])
    /\ UNCHANGED <<sessionVars, settings, oauthVars, now, boot, msg, calls>>

\* set_default_account, first statement; an error skips the second
callback_default_clear(c) ==
    /\ pc[c] = "callback_default_clear"
    /\ \E sql \in SqlOutcomes :
        IF sql = "err"
        THEN accounts' = accounts /\ Goto(c, "callback_write_client", local[c])
        ELSE /\ accounts' = clear_default_sql(accounts)
             /\ Goto(c, "callback_default_set", local[c])
    /\ UNCHANGED <<sessionVars, settings, oauthVars, now, boot, msg, calls>>

callback_default_set(c) ==
    /\ pc[c] = "callback_default_set"
    /\ \E sql \in SqlOutcomes :
        accounts' = IF sql = "err" THEN accounts
                    ELSE set_default_sql(accounts, local[c].stored_account.id, now)
    /\ Goto(c, "callback_write_client", local[c])
    /\ UNCHANGED <<sessionVars, settings, oauthVars, now, boot, msg, calls>>

callback_write_client(c) ==
    /\ pc[c] = "callback_write_client"
    /\ client' = Some(local[c].client)
    /\ Goto(c, "callback_write_id", local[c])
    /\ UNCHANGED <<current_account_id, storeVars, oauthVars, now, boot, msg, calls>>

callback_write_id(c) ==
    /\ pc[c] = "callback_write_id"
    /\ current_account_id' = Some(local[c].stored_account.id)
    /\ LET a == local[c].stored_account
       IN  Return(c, response_ok(msg[c].v.id,
                     [success |-> TRUE,
                      account |-> [id |-> a.id, instance_url |-> a.instance_url,
                                   username |-> a.username,
                                   is_default |-> a.is_default,
                                   last_used_at |-> a.last_used_at]]), NoLocal)
    /\ UNCHANGED <<client, storeVars, oauthVars, now, boot, msg, calls>>

callback_write_client_only_clears_id(c) ==
    /\ pc[c] = "callback_write_client_only"
    /\ client' = Some(local[c].client)
    /\ current_account_id' = None
    /\ Return(c, response_ok(msg[c].v.id,
                 [success |-> TRUE,
                  error_fetching_user |-> "Failed to verify credentials"]), NoLocal)
    /\ UNCHANGED <<storeVars, oauthVars, now, boot, msg, calls>>

\* the user could not be fetched: only the client slot is written
callback_write_client_only(c) ==
    /\ pc[c] = "callback_write_client_only"
    /\ client' = Some(local[c].client)
    /\ Return(c, response_ok(msg[c].v.id,
                 [success |-> TRUE,
                  error_fetching_user |-> "Failed to verify credentials"]), NoLocal)
    /\ UNCHANGED <<current_account_id, storeVars, oauthVars, now, boot, msg, calls>>

-----------------------------------------------------------------------------
(* auth.logout: handle_auth_logout *)

\* let account_id = self.current_account_id.read().await.clone()
handle_auth_logout(c, m) ==
    /\ MethodOf(m) = AUTH_LOGOUT
    /\ Begin(c, m)
    /\ Goto(c, "logout_clear_client", [account_id |-> current_account_id])
    /\ UNCHANGED <<sessionVars, storeVars, oauthVars, now, boot, calls>>

logout_clear_client(c) ==
    /\ pc[c] = "logout_clear_client"
    /\ client' = None
    /\ Goto(c, "logout_clear_id", local[c])
    /\ UNCHANGED <<current_account_id, storeVars, oauthVars, now, boot, msg, calls>>

logout_clear_id(c) ==
    /\ pc[c] = "logout_clear_id"
    /\ current_account_id' = None
    /\ LET m == msg[c].v
           flag == IF IsSome(m.params)
                   THEN AsBool(Get(m.params.v, "delete_account")) ELSE None
           delete_account == IF IsSome(flag) THEN flag.v ELSE FALSE
       IN  IF delete_account /\ IsSome(local[c].account_id)
           THEN Goto(c, "logout_delete", local[c])
           ELSE Return(c, response_ok(m.id, [success |-> TRUE]), NoLocal)
    /\ UNCHANGED <<client, storeVars, oauthVars, now, boot, msg, calls>>

\* self.cache.delete_account(id); an error is logged
logout_delete(c) ==
    /\ pc[c] = "logout_delete"
    /\ \E sql \in SqlOutcomes :
        accounts' = IF sql = "err" THEN accounts
                    ELSE delete_account_sql(accounts, local[c].account_id.v)
    /\ Return(c, response_ok(msg[c].v.id, [success |-> TRUE]), NoLocal)
    /\ UNCHANGED <<sessionVars, settings, oauthVars, now, boot, msg, calls>>

-----------------------------------------------------------------------------
(* auth.get_accounts: handle_auth_get_accounts *)

\* both slots hold a value, or neither does
WellFormed(cl, id) == IsSome(cl) <=> IsSome(id)

\* let has_client = self.client.read().await.is_some()
\* (session_ok records, for the properties, whether the session was well
\* formed at this first read)
handle_auth_get_accounts(c, m) ==
    /\ MethodOf(m) = AUTH_GET_ACCOUNTS
    /\ Begin(c, m)
    /\ Goto(c, "get_accounts_read_id",
            [has_client |-> IsSome(client),
             session_ok |-> WellFormed(client, current_account_id)])
    /\ UNCHANGED <<sessionVars, storeVars, oauthVars, now, boot, calls>>

\* let current_account_id = self.current_account_id.read().await.clone()
get_accounts_read_id(c) ==
    /\ pc[c] = "get_accounts_read_id"
    /\ Goto(c, "get_accounts_query",
            [has_client |-> local[c].has_client,
             session_ok |-> local[c].session_ok,
             current_account_id |-> current_account_id])
    /\ UNCHANGED <<sessionVars, storeVars, oauthVars, now, boot, msg, calls>>

\* self.cache.get_accounts(); an error gives the empty list
get_accounts_query(c) ==
    /\ pc[c] = "get_accounts_query"
    /\ \E sql \in SqlOutcomes, order \in AccountOrders(accounts) :
        LET list == IF sql = "err" THEN <<>> ELSE get_accounts(accounts, order)
        IN  Return(c, response_ok(msg[c].v.id,
                       [authenticated |-> local[c].has_client,
                        current_account_id |-> local[c].current_account_id,
                        accounts |-> SerializeAll(list)]),
                   [session_ok |-> local[c].session_ok])
    /\ UNCHANGED <<sessionVars, storeVars, oauthVars, now, boot, msg, calls>>

-----------------------------------------------------------------------------
(* auth.switch_account: handle_auth_switch_account *)

\* a mutation of switch_failed: the failure path logs the user out
switch_failed_logs_out(c, m, code, text) ==
    /\ Return(c, Err(m, code, text), NoLocal)
    /\ client' = None
    /\ current_account_id' = None

\* every early return of the handler: an error response, nothing written
switch_failed(c, m, code, text) ==
    /\ Return(c, Err(m, code, text), NoLocal)
    /\ UNCHANGED sessionVars

\* params, cache.get_account, from_token, client.get_current_user
handle_auth_switch_account(c, m) ==
    /\ MethodOf(m) = AUTH_SWITCH_ACCOUNT
    /\ Begin(c, m)
    /\ UNCHANGED <<storeVars, oauthVars, now, boot>>
    /\ LET account_id == IF IsSome(m.params)
                         THEN AsStr(Get(m.params.v, "account_id")) ELSE None
       IN  IF IsNone(m.params)
           THEN switch_failed(c, m, INVALID_PARAMS, "Missing params")
                /\ UNCHANGED calls
           ELSE IF IsNone(account_id)
           THEN switch_failed(c, m, INVALID_PARAMS, "Missing account_id")
                /\ UNCHANGED calls
           ELSE \E sql \in SqlOutcomes, generated \in RemoteOutcomes,
                   verified \in RemoteOutcomes :
                  LET account == get_account(accounts, account_id.v)
                  IN  IF sql = "err"
                      THEN switch_failed(c, m, INTERNAL_ERROR, "Database error")
                           /\ UNCHANGED calls
                      ELSE IF IsNone(account)
                      THEN switch_failed(c, m, NOT_AUTHENTICATED,
                                         "Account not found")
                           /\ UNCHANGED calls
                      ELSE IF generated = "err"
                      THEN switch_failed(c, m, INTERNAL_ERROR,
                                         "Failed to create client")
                           /\ UNCHANGED calls
                      ELSE /\ Called(c, {"verify_account_credentials"})
                           /\ IF verified = "err"
                              THEN switch_failed(c, m, API_ERROR,
                                       "Token expired, please re-authenticate")
                              ELSE /\ Goto(c, "switch_write_client",
                                           [account_id |-> account_id.v,
                                            account |-> account.v,
                                            client |-> from_token(
                                                account.v.instance_url,
                                                account.v.access_token)])
                                   /\ UNCHANGED sessionVars

switch_write_client(c) ==
    /\ pc[c] = "switch_write_client"
    /\ client' = Some(local[c].client)
    /\ Goto(c, "switch_write_id", local[c])
    /\ UNCHANGED <<current_account_id, storeVars, oauthVars, now, boot, msg, calls>>

switch_write_id(c) ==
    /\ pc[c] = "switch_write_id"
    /\ current_account_id' = Some(local[c].account_id)
    /\ Goto(c, "switch_default_clear", local[c])
    /\ UNCHANGED <<client, storeVars, oauthVars, now, boot, msg, calls>>

SwitchOk(c) ==
    response_ok(msg[c].v.id,
        [success |-> TRUE, account |-> Serialize(local[c].account),
         user |-> UserOfToken(local[c].account.access_token)])

\* let _ = self.cache.set_default_account(account_id): first statement
switch_default_clear(c) ==
    /\ pc[c] = "switch_default_clear"
    /\ \E sql \in SqlOutcomes :
        IF sql = "err"
        THEN accounts' = accounts /\ Return(c, SwitchOk(c), NoLocal)
        ELSE /\ accounts' = clear_default_sql(accounts)
             /\ Goto(c, "switch_default_set", local[c])
    /\ UNCHANGED <<sessionVars, settings, oauthVars, now, boot, msg, calls>>

switch_default_set(c) ==
    /\ pc[c] = "switch_default_set"
    /\ \E sql \in SqlOutcomes :
        accounts' = IF sql = "err" THEN accounts
                    ELSE set_default_sql(accounts, local[c].account_id, now)
    /\ Return(c, SwitchOk(c), NoLocal)
    /\ UNCHANGED <<sessionVars, settings, oauthVars, now, boot, msg, calls>>

-----------------------------------------------------------------------------
(* auth.delete_account: handle_auth_delete_account *)

\* params, then let current_id = self.current_account_id.read().await.clone()
handle_auth_delete_account(c, m) ==
    /\ MethodOf(m) = AUTH_DELETE_ACCOUNT
    /\ Begin(c, m)
    /\ UNCHANGED <<sessionVars, storeVars, oauthVars, now, boot, calls>>
    /\ LET account_id == IF IsSome(m.params)
                         THEN AsStr(Get(m.params.v, "account_id")) ELSE None
       IN  IF IsNone(m.params)
           THEN Return(c, Err(m, INVALID_PARAMS, "Missing params"), NoLocal)
           ELSE IF IsNone(account_id)
           THEN Return(c, Err(m, INVALID_PARAMS, "Missing account_id"), NoLocal)
           ELSE IF current_account_id = Some(account_id.v)
           THEN Goto(c, "delete_clear_client", [account_id |-> account_id.v])
           ELSE Goto(c, "delete_row", [account_id |-> account_id.v])

delete_clear_client(c) ==
    /\ pc[c] = "delete_clear_client"
    /\ client' = None
    /\ Goto(c, "delete_clear_id", local[c])
    /\ UNCHANGED <<current_account_id, storeVars, oauthVars, now, boot, msg, calls>>

delete_clear_id(c) ==
    /\ pc[c] = "delete_clear_id"
    /\ current_account_id' = None
    /\ Goto(c, "delete_row", local[c])
    /\ UNCHANGED <<client, storeVars, oauthVars, now, boot, msg, calls>>

\* self.cache.delete_account(account_id)
delete_row(c) ==
    /\ pc[c] = "delete_row"
    /\ \E sql \in SqlOutcomes :
        IF sql = "err"
        THEN /\ accounts' = accounts
             /\ Return(c, Err(msg[c].v, INTERNAL_ERROR, "Failed to delete account"),
                       NoLocal)
        ELSE /\ accounts' = delete_account_sql(accounts, local[c].account_id)
             /\ Return(c, response_ok(msg[c].v.id, [success |-> TRUE]), NoLocal)
    /\ UNCHANGED <<sessionVars, settings, oauthVars, now, boot, msg, calls>>

-----------------------------------------------------------------------------
(* ping, shutdown and the unknown method *)

\* a mutation of handle_ping: only frames of type request are served
handle_ping_requests_only(c, m) ==
    /\ MethodOf(m) = PING
    /\ Begin(c, m)
    /\ Return(c, IF m.message_type = "request"
                 THEN response_ok(m.id, [pong |-> TRUE, timestamp |-> Rfc3339(now)])
                 ELSE Err(m, METHOD_NOT_FOUND, <<"Unknown method: ", MethodOf(m)>>),
              NoLocal)
    /\ UNCHANGED <<sessionVars, storeVars, oauthVars, now, boot, calls>>

handle_ping(c, m) ==
    /\ MethodOf(m) = PING
    /\ Begin(c, m)
    /\ Return(c, response_ok(m.id, [pong |-> TRUE, timestamp |-> Rfc3339(now)]),
              NoLocal)
    /\ UNCHANGED <<sessionVars, storeVars, oauthVars, now, boot, calls>>

\* a mutation of handle_shutdown: the listener is signalled
handle_shutdown_signals(c, m) ==
    /\ MethodOf(m) = SHUTDOWN
    /\ Begin(c, m)
    /\ pc' = [pc EXCEPT ![c] = "respond"]
    /\ local' = [local EXCEPT ![c] = NoLocal]
    /\ response' = [response EXCEPT
                        ![c] = Some(response_ok(m.id, [status |-> "shutting_down"]))]
    /\ shutdown_signal' = TRUE
    /\ UNCHANGED <<listener, socket_path, streams, cache_call>>
    /\ UNCHANGED <<sessionVars, storeVars, oauthVars, now, boot, calls>>

handle_shutdown(c, m) ==
    /\ MethodOf(m) = SHUTDOWN
    /\ Begin(c, m)
    /\ Return(c, response_ok(m.id, [status |-> "shutting_down"]), NoLocal)
    /\ UNCHANGED <<sessionVars, storeVars, oauthVars, now, boot, calls>>

\* a mutation of handle_unknown: the error code is INVALID_REQUEST
handle_unknown_invalid_request(c, m) ==
    /\ MethodOf(m) \notin Methods
    /\ Begin(c, m)
    /\ Return(c, Err(m, INVALID_REQUEST, <<"Unknown method: ", MethodOf(m)>>),
              NoLocal)
    /\ UNCHANGED <<sessionVars, storeVars, oauthVars, now, boot, calls>>

\* the `_` arm of handle_message
handle_unknown(c, m) ==
    /\ MethodOf(m) \notin Methods
    /\ Begin(c, m)
    /\ Return(c, Err(m, METHOD_NOT_FOUND, <<"Unknown method: ", MethodOf(m)>>),
              NoLocal)
    /\ UNCHANGED <<sessionVars, storeVars, oauthVars, now, boot, calls>>

-----------------------------------------------------------------------------
(* settings.get, settings.set, settings.get_all *)

\* SELECT value FROM settings WHERE key = ?
get_setting(table, key) ==
    IF key \in DOMAIN table THEN Some(table[key]) ELSE None

\* a mutation of set_setting_sql: ON CONFLICT(key) DO NOTHING
set_setting_sql_keeps_first(table, key, value) ==
    [k \in DOMAIN table \cup {key} |->
        IF k \in DOMAIN table THEN table[k] ELSE value]

\* INSERT INTO settings ... ON CONFLICT(key) DO UPDATE SET value
set_setting_sql(table, key, value) ==
    [k \in DOMAIN table \cup {key} |-> IF k = key THEN value ELSE table[k]]

handle_settings_get(c, m) ==
    /\ MethodOf(m) = SETTINGS_GET
    /\ Begin(c, m)
    /\ UNCHANGED <<sessionVars, storeVars, oauthVars, now, boot, calls>>
    /\ LET key == IF IsSome(m.params) THEN AsStr(Get(m.params.v, "key")) ELSE None
       IN  IF IsNone(m.params)
           THEN Return(c, Err(m, INVALID_PARAMS, "Missing params"), NoLocal)
           ELSE IF IsNone(key)
           THEN Return(c, Err(m, INVALID_PARAMS, "Missing key"), NoLocal)
           ELSE \E sql \in SqlOutcomes :
                  IF sql = "err"
                  THEN Return(c, Err(m, INTERNAL_ERROR, "Database error"), NoLocal)
                  ELSE Return(c, response_ok(m.id,
                                 [key |-> key.v,
                                  value |-> get_setting(settings, key.v)]),
                              NoLocal)

\* a mutation of handle_settings_set: a value that is missing or not a string
\* is stored as the empty string
handle_settings_set_defaults_value(c, m) ==
    /\ MethodOf(m) = SETTINGS_SET
    /\ Begin(c, m)
    /\ UNCHANGED <<sessionVars, accounts, oauthVars, now, boot, calls>>
    /\ LET key == IF IsSome(m.params) THEN AsStr(Get(m.params.v, "key")) ELSE None
           value == IF IsSome(m.params)
                    THEN AsStr(Get(m.params.v, "value")) ELSE None
       IN  IF IsNone(m.params)
           THEN /\ Return(c, Err(m, INVALID_PARAMS, "Missing params"), NoLocal)
                /\ UNCHANGED settings
           ELSE IF IsNone(key)
           THEN /\ Return(c, Err(m, INVALID_PARAMS, "Missing key"), NoLocal)
                /\ UNCHANGED settings
           ELSE \E sql \in SqlOutcomes :
                  IF sql = "err"
                  THEN /\ Return(c, Err(m, INTERNAL_ERROR, "Database error"),
                                 NoLocal)
                       /\ UNCHANGED settings
                  ELSE /\ settings' = set_setting_sql(settings, key.v,
                                         IF IsSome(value) THEN value.v ELSE <<>>)
                       /\ Return(c, response_ok(m.id, [success |-> TRUE]), NoLocal)

handle_settings_set(c, m) ==
    /\ MethodOf(m) = SETTINGS_SET
    /\ Begin(c, m)
    /\ UNCHANGED <<sessionVars, accounts, oauthVars, now, boot, calls>>
    /\ LET key == IF IsSome(m.params) THEN AsStr(Get(m.params.v, "key")) ELSE None
           value == IF IsSome(m.params)
                    THEN AsStr(Get(m.params.v, "value")) ELSE None
       IN  IF IsNone(m.params)
           THEN /\ Return(c, Err(m, INVALID_PARAMS, "Missing params"), NoLocal)
                /\ UNCHANGED settings
           ELSE IF IsNone(key)
           THEN /\ Return(c, Err(m, INVALID_PARAMS, "Missing key"), NoLocal)
                /\ UNCHANGED settings
           ELSE IF IsNone(value)
           THEN /\ Return(c, Err(m, INVALID_PARAMS, "Missing value"), NoLocal)
                /\ UNCHANGED settings
           ELSE \E sql \in SqlOutcomes :
                  IF sql = "err"
                  THEN /\ Return(c, Err(m, INTERNAL_ERROR, "Database error"),
                                 NoLocal)
                       /\ UNCHANGED settings
                  ELSE /\ settings' = set_setting_sql(settings, key.v, value.v)
                       /\ Return(c, response_ok(m.id, [success |-> TRUE]), NoLocal)

handle_settings_get_all(c, m) ==
    /\ MethodOf(m) = SETTINGS_GET_ALL
    /\ Begin(c, m)
    /\ UNCHANGED <<sessionVars, storeVars, oauthVars, now, boot, calls>>
    /\ \E sql \in SqlOutcomes :
        IF sql = "err"
        THEN Return(c, Err(m, INTERNAL_ERROR, "Database error"), NoLocal)
        ELSE Return(c, response_ok(m.id, [settings |-> settings]), NoLocal)

-----------------------------------------------------------------------------
(* Request models: serde_json::from_value *)

\* an Option<String> field: absent, or a string
OptStrOk(p, key) == IsNone(Get(p, key)) \/ IsSome(AsStr(Get(p, key)))

\* the integer a number's text denotes
Numerals == {<<"-1">>, <<"0">>, <<"1">>, <<"2">>}
AsInt(s) ==
    CASE s = <<"-1">> -> -1
      [] s = <<"0">> -> 0
      [] s = <<"1">> -> 1
      [] s = <<"2">> -> 2

\* an Option<u32> field: absent, or an unsigned number (every numeral here
\* is far below the 32 bits' end)
OptU32Ok(p, key) ==
    \/ IsNone(Get(p, key))
    \/ /\ Get(p, key).v.t = "num"
       /\ Get(p, key).v.v \in Numerals
       /\ AsInt(Get(p, key).v.v) >= 0

OptU32(p, key) ==
    IF IsSome(Get(p, key)) THEN Some(AsInt(Get(p, key).v.v)) ELSE None

\* enum TimelineType, rename_all = "snake_case"
UnitTimelineTypes ==
    {"home", "local", "federated", "notifications", "direct", "bookmarks",
     "favourites", "trending"}
FieldTimelineTypes == {"user", "hashtag", "list", "search"}

TimelineTypeOf(j) ==
    IF j.t = "str" /\ Len(j.v) = 1 /\ j.v[1] \in UnitTimelineTypes
    THEN Some([kind |-> j.v[1], arg |-> ""])
    ELSE IF j.t = "variant" /\ j.v[1] \in FieldTimelineTypes
    THEN Some([kind |-> j.v[1], arg |-> j.v[2]])
    ELSE None

\* from_value::<TimelineRequest>: timeline_type is required
TimelineRequestOf(p) ==
    LET tt == Get(p, "timeline_type")
    IN  IF /\ p.kind = "object"
           /\ IsSome(tt) /\ IsSome(TimelineTypeOf(tt.v))
           /\ OptU32Ok(p, "limit")
           /\ \A k \in {"max_id", "since_id", "min_id"} : OptStrOk(p, k)
        THEN Some([timeline_type |-> TimelineTypeOf(tt.v).v,
                   limit |-> OptU32(p, "limit"),
                   max_id |-> AsStr(Get(p, "max_id"))])
        ELSE None

\* enum Visibility
Visibilities == {"public", "unlisted", "private", "direct"}

\* from_value::<NewPost>: content, visibility, sensitive and media_ids are
\* required
NewPostOf(p) ==
    LET content == AsStr(Get(p, "content"))
        visibility == AsStr(Get(p, "visibility"))
        sensitive == AsBool(Get(p, "sensitive"))
        media_ids == Get(p, "media_ids")
    IN  IF /\ p.kind = "object"
           /\ IsSome(content)
           /\ IsSome(visibility)
           /\ Len(visibility.v) = 1 /\ visibility.v[1] \in Visibilities
           /\ IsSome(sensitive)
           /\ IsSome(media_ids) /\ media_ids.v.t = "array"
           /\ \A k \in {"spoiler_text", "language", "in_reply_to_id"} :
                  OptStrOk(p, k)
        THEN Some([content |-> content.v, visibility |-> visibility.v[1],
                   sensitive |-> sensitive.v, media_ids |-> media_ids.v.v])
        ELSE None

\* from_value::<NotificationRequest>: every field is optional
NotificationRequestOf(p) ==
    IF /\ p.kind = "object"
       /\ OptU32Ok(p, "limit")
       /\ \A k \in {"max_id", "since_id", "min_id"} : OptStrOk(p, k)
    THEN Some([limit |-> OptU32(p, "limit"), max_id |-> AsStr(Get(p, "max_id"))])
    ELSE None

\* NotificationRequest::default()
DefaultNotificationRequest == [limit |-> None, max_id |-> None]

\* from_value::<MediaUploadRequest>: file_path is required
MediaUploadRequestOf(p) ==
    IF /\ p.kind = "object"
       /\ IsSome(AsStr(Get(p, "file_path")))
       /\ OptStrOk(p, "description")
    THEN Some([file_path |-> AsStr(Get(p, "file_path")).v,
               description |-> AsStr(Get(p, "description"))])
    ELSE None

-----------------------------------------------------------------------------
(* The handlers that need the client: timeline, post, notifications, media,  *)
(* instance.  Each reads the client slot first, then looks at its params,    *)
(* then awaits one call of the client it cloned.                             *)

\* what a handler does before its remote call: an early error return, or the
\* request it goes on with
Reject(code, text) == [ok |-> FALSE, code |-> code, text |-> text]
Accept(request) == [ok |-> TRUE, request |-> request]

NoRequest == [none |-> TRUE]

\* the handler up to its first .await on the remote client; the client it
\* goes on with is the clone taken from the slot
Enter(c, m, entry, label) ==
    /\ Begin(c, m)
    /\ UNCHANGED <<sessionVars, storeVars, oauthVars, now, boot, calls>>
    /\ IF entry.ok
       THEN Goto(c, label, [client |-> client.v, request |-> entry.request])
       ELSE Return(c, Err(m, entry.code, entry.text), NoLocal)

\* a mutation of RemoteReturn: the failure is answered with NETWORK_ERROR
RemoteReturn_network_error(c, call, failure, result) ==
    /\ Called(c, {call})
    /\ \E outcome \in RemoteOutcomes :
        Return(c, IF outcome = "err"
                  THEN Err(msg[c].v, NETWORK_ERROR, failure)
                  ELSE response_ok(msg[c].v.id, result), NoLocal)
    /\ UNCHANGED <<sessionVars, storeVars, oauthVars, now, boot, msg>>

\* the remote call made, its answer mapped to the response
RemoteReturn(c, call, failure, result) ==
    /\ Called(c, {call})
    /\ \E outcome \in RemoteOutcomes :
        Return(c, IF outcome = "err"
                  THEN Err(msg[c].v, API_ERROR, failure)
                  ELSE response_ok(msg[c].v.id, result), NoLocal)
    /\ UNCHANGED <<sessionVars, storeVars, oauthVars, now, boot, msg>>

\* ---- timeline.get ----

timeline_get_entry(cl, m) ==
    IF IsNone(cl) THEN Reject(NOT_AUTHENTICATED, "Not authenticated")
    ELSE IF IsNone(m.params) THEN Reject(INVALID_PARAMS, "Missing params")
    ELSE IF IsNone(TimelineRequestOf(m.params.v))
    THEN Reject(INVALID_PARAMS, "Invalid params")
    ELSE Accept(TimelineRequestOf(m.params.v).v)

handle_timeline_get(c, m) ==
    /\ MethodOf(m) = TIMELINE_GET
    /\ Enter(c, m, timeline_get_entry(client, m), "get_timeline")

\* request.limit.unwrap_or(20)
DefaultLimit == 20

\* the timeline types get_timeline asks the instance for; the others give
\* the empty list
RemoteTimelineTypes ==
    {"home", "local", "federated", "hashtag", "user", "bookmarks", "favourites",
     "list"}
\* of those, the ones whose call passes the limit on
LimitedTimelineTypes == {"home", "local", "federated", "hashtag", "user", "list"}

\* what the instance holds, newest first
Timelines == {<<>>, <<"p2">>, <<"p2", "p1">>}

\* the pages the instance may answer with
ServedPosts(kind, limit) ==
    IF kind \in LimitedTimelineTypes
    THEN {s \in Timelines : Len(s) <= limit}
    ELSE Timelines

TimelineResponse(posts, limit) ==
    [posts |-> posts,
     max_id |-> IF posts # <<>> THEN Some(posts[1]) ELSE None,
     min_id |-> IF posts # <<>> THEN Some(posts[Len(posts)]) ELSE None,
     has_more |-> Len(posts) = limit]

\* a mutation of get_timeline: the handler puts its client back in the slot
get_timeline_restores_client(c) ==
    /\ pc[c] = "get_timeline"
    /\ client' = Some(local[c].client)
    /\ UNCHANGED <<current_account_id, storeVars, oauthVars, now, boot, msg>>
    /\ LET request == local[c].request
           kind == request.timeline_type.kind
           limit == IF IsSome(request.limit) THEN request.limit.v ELSE DefaultLimit
       IN  IF kind \notin RemoteTimelineTypes
           THEN /\ UNCHANGED calls
                /\ Return(c, response_ok(msg[c].v.id, TimelineResponse(<<>>, limit)),
                          NoLocal)
           ELSE /\ Called(c, {"get_timeline"})
                /\ \E outcome \in RemoteOutcomes, posts \in ServedPosts(kind, limit) :
                     Return(c, IF outcome = "err"
                               THEN Err(msg[c].v, API_ERROR,
                                        "Failed to fetch timeline")
                               ELSE response_ok(msg[c].v.id,
                                                TimelineResponse(posts, limit)),
                            NoLocal)

get_timeline(c) ==
    /\ pc[c] = "get_timeline"
    /\ UNCHANGED <<sessionVars, storeVars, oauthVars, now, boot, msg>>
    /\ LET request == local[c].request
           kind == request.timeline_type.kind
           limit == IF IsSome(request.limit) THEN request.limit.v ELSE DefaultLimit
       IN  IF kind \notin RemoteTimelineTypes
           THEN /\ UNCHANGED calls
                /\ Return(c, response_ok(msg[c].v.id, TimelineResponse(<<>>, limit)),
                          NoLocal)
           ELSE /\ Called(c, {"get_timeline"})
                /\ \E outcome \in RemoteOutcomes, posts \in ServedPosts(kind, limit) :
                     Return(c, IF outcome = "err"
                               THEN Err(msg[c].v, API_ERROR,
                                        "Failed to fetch timeline")
                               ELSE response_ok(msg[c].v.id,
                                                TimelineResponse(posts, limit)),
                            NoLocal)

\* ---- post.create ----

post_create_entry(cl, m) ==
    IF IsNone(cl) THEN Reject(NOT_AUTHENTICATED, "Not authenticated")
    ELSE IF IsNone(m.params) THEN Reject(INVALID_PARAMS, "Missing params")
    ELSE IF IsNone(NewPostOf(m.params.v))
    THEN Reject(INVALID_PARAMS, "Invalid params")
    ELSE Accept(NewPostOf(m.params.v).v)

handle_post_create(c, m) ==
    /\ MethodOf(m) = POST_CREATE
    /\ Enter(c, m, post_create_entry(client, m), "create_post")

create_post(c) ==
    /\ pc[c] = "create_post"
    /\ RemoteReturn(c, "create_post", "Failed to create post",
                    [id |-> "p3", content |-> local[c].request.content,
                     visibility |-> local[c].request.visibility])

\* ---- post.boost, post.unboost, post.favourite, post.unfavourite ----

\* a mutation of post_action_entry: the params are looked at before the
\* client slot
post_action_entry_params_first(cl, m) ==
    IF IsNone(m.params) THEN Reject(INVALID_PARAMS, "Missing params")
    ELSE IF IsNone(AsStr(Get(m.params.v, "post_id")))
    THEN Reject(INVALID_PARAMS, "Missing post_id")
    ELSE IF IsNone(cl) THEN Reject(NOT_AUTHENTICATED, "Not authenticated")
    ELSE Accept([post_id |-> AsStr(Get(m.params.v, "post_id")).v])

post_action_entry(cl, m) ==
    IF IsNone(cl) THEN Reject(NOT_AUTHENTICATED, "Not authenticated")
    ELSE IF IsNone(m.params) THEN Reject(INVALID_PARAMS, "Missing params")
    ELSE IF IsNone(AsStr(Get(m.params.v, "post_id")))
    THEN Reject(INVALID_PARAMS, "Missing post_id")
    ELSE Accept([post_id |-> AsStr(Get(m.params.v, "post_id")).v])

PostActions == {"boost", "unboost", "favourite", "unfavourite"}

handle_post_action(c, m, action) ==
    Enter(c, m, post_action_entry(client, m), action)

handle_post_boost(c, m) ==
    MethodOf(m) = POST_BOOST /\ handle_post_action(c, m, "boost")

handle_post_unboost(c, m) ==
    MethodOf(m) = POST_UNBOOST /\ handle_post_action(c, m, "unboost")

handle_post_favourite(c, m) ==
    MethodOf(m) = POST_FAVOURITE /\ handle_post_action(c, m, "favourite")

handle_post_unfavourite(c, m) ==
    MethodOf(m) = POST_UNFAVOURITE /\ handle_post_action(c, m, "unfavourite")

\* the client method an action calls, and the text of its failure
PostActionCall(action) ==
    CASE action = "boost" -> "boost_post"
      [] action = "unboost" -> "unboost_post"
      [] action = "favourite" -> "favourite_post"
      [] action = "unfavourite" -> "unfavourite_post"

PostActionFailure(action) ==
    CASE action = "boost" -> "Failed to boost post"
      [] action = "unboost" -> "Failed to unboost post"
      [] action = "favourite" -> "Failed to favourite post"
      [] action = "unfavourite" -> "Failed to unfavourite post"

\* client.boost_post / unboost_post / favourite_post / unfavourite_post
post_action(c) ==
    /\ pc[c] \in PostActions
    /\ RemoteReturn(c, PostActionCall(pc[c]), PostActionFailure(pc[c]),
                    [id |-> local[c].request.post_id])

\* ---- instance.get ----

instance_get_entry(cl, m) ==
    IF IsNone(cl) THEN Reject(NOT_AUTHENTICATED, "Not authenticated")
    ELSE Accept(NoRequest)

handle_instance_get(c, m) ==
    /\ MethodOf(m) = INSTANCE_GET
    /\ Enter(c, m, instance_get_entry(client, m), "get_instance_info")

get_instance_info(c) ==
    /\ pc[c] = "get_instance_info"
    /\ RemoteReturn(c, "get_instance_info", "Failed to get instance info",
                    [url |-> local[c].client.instance_url])

\* ---- notifications.get, notifications.clear, notifications.dismiss ----

notifications_get_entry(cl, m) ==
    IF IsNone(cl) THEN Reject(NOT_AUTHENTICATED, "Not authenticated")
    ELSE IF IsNone(m.params) THEN Accept(DefaultNotificationRequest)
    ELSE IF IsNone(NotificationRequestOf(m.params.v))
    THEN Reject(INVALID_PARAMS, "Invalid params")
    ELSE Accept(NotificationRequestOf(m.params.v).v)

handle_notifications_get(c, m) ==
    /\ MethodOf(m) = NOTIFICATIONS_GET
    /\ Enter(c, m, notifications_get_entry(client, m), "get_notifications")

\* request.limit.unwrap_or(20) of get_notifications
DefaultNotificationLimit == 20

\* the notifications the instance holds, newest first
Notifications == {<<>>, <<"n2">>, <<"n2", "n1">>}

NotificationResponse(notifications, limit) ==
    [notifications |-> notifications,
     max_id |-> IF notifications # <<>> THEN Some(notifications[1]) ELSE None,
     min_id |-> IF notifications # <<>>
                THEN Some(notifications[Len(notifications)]) ELSE None,
     has_more |-> Len(notifications) = limit]

get_notifications(c) ==
    /\ pc[c] = "get_notifications"
    /\ UNCHANGED <<sessionVars, storeVars, oauthVars, now, boot, msg>>
    /\ Called(c, {"get_notifications"})
    /\ LET request == local[c].request
           limit == IF IsSome(request.limit) THEN request.limit.v
                    ELSE DefaultNotificationLimit
       IN  \E outcome \in RemoteOutcomes,
              list \in {s \in Notifications : Len(s) <= limit} :
             Return(c, IF outcome = "err"
                       THEN Err(msg[c].v, API_ERROR, "Failed to fetch notifications")
                       ELSE response_ok(msg[c].v.id,
                                        NotificationResponse(list, limit)),
                    NoLocal)

notifications_clear_entry(cl, m) ==
    IF IsNone(cl) THEN Reject(NOT_AUTHENTICATED, "Not authenticated")
    ELSE Accept(NoRequest)

handle_notifications_clear(c, m) ==
    /\ MethodOf(m) = NOTIFICATIONS_CLEAR
    /\ Enter(c, m, notifications_clear_entry(client, m), "clear_notifications")

clear_notifications(c) ==
    /\ pc[c] = "clear_notifications"
    /\ RemoteReturn(c, "clear_notifications", "Failed to clear notifications",
                    [success |-> TRUE])

notifications_dismiss_entry(cl, m) ==
    IF IsNone(cl) THEN Reject(NOT_AUTHENTICATED, "Not authenticated")
    ELSE IF IsNone(m.params) THEN Reject(INVALID_PARAMS, "Missing params")
    ELSE IF IsNone(AsStr(Get(m.params.v, "notification_id")))
    THEN Reject(INVALID_PARAMS, "Missing notification_id")
    ELSE Accept([notification_id |-> AsStr(Get(m.params.v, "notification_id")).v])

handle_notifications_dismiss(c, m) ==
    /\ MethodOf(m) = NOTIFICATIONS_DISMISS
    /\ Enter(c, m, notifications_dismiss_entry(client, m), "dismiss_notification")

dismiss_notification(c) ==
    /\ pc[c] = "dismiss_notification"
    /\ RemoteReturn(c, "dismiss_notification", "Failed to dismiss notification",
                    [success |-> TRUE])

\* ---- media.upload ----

media_upload_entry(cl, m) ==
    IF IsNone(cl) THEN Reject(NOT_AUTHENTICATED, "Not authenticated")
    ELSE IF IsNone(m.params) THEN Reject(INVALID_PARAMS, "Missing params")
    ELSE IF IsNone(MediaUploadRequestOf(m.params.v))
    THEN Reject(INVALID_PARAMS, "Invalid params")
    ELSE Accept(MediaUploadRequestOf(m.params.v).v)

handle_media_upload(c, m) ==
    /\ MethodOf(m) = MEDIA_UPLOAD
    /\ Enter(c, m, media_upload_entry(client, m), "upload_media")

\* upload_media: a file that does not exist fails before any remote call
upload_media(c) ==
    /\ pc[c] = "upload_media"
    /\ \E exists \in BOOLEAN :
        IF exists
        THEN RemoteReturn(c, "upload_media", "Failed to upload media",
                          [id |-> "m1", description |-> local[c].request.description])
        ELSE /\ Return(c, Err(msg[c].v, API_ERROR,
                              "Failed to upload media: File not found"), NoLocal)
             /\ UNCHANGED <<sessionVars, storeVars, oauthVars, now, boot, msg, calls>>

-----------------------------------------------------------------------------
(* The messages the UI sends *)

Request(id, method, params) ==
    [id |-> id, message_type |-> "request", method |-> Some(method),
     params |-> params, result |-> None, error |-> None]

Object1(k, v) == JObject([x \in {k} |-> v])
Object2(k1, v1, k2, v2) == JObject([x \in {k1, k2} |-> IF x = k1 THEN v1 ELSE v2])

\* the ids a connection stamps its requests with
IdsOf(c) == IF c = "c1" THEN {"1"} ELSE {"2"}

SessionMessages(c) ==
    UNION {
        {Request(id, AUTH_START, Some(Object1("instance_url", JStr(url)))),
         Request(id, AUTH_CALLBACK,
                 Some(Object2("instance_url", JStr(url), "code", JStr(<<"code">>)))),
         Request(id, AUTH_SWITCH_ACCOUNT,
                 Some(Object1("account_id", JStr(AccountId("alice", url))))),
         Request(id, AUTH_DELETE_ACCOUNT,
                 Some(Object1("account_id", JStr(AccountId("alice", url))))),
         Request(id, AUTH_LOGOUT, None),
         Request(id, AUTH_LOGOUT, Some(Object1("delete_account", JBool(TRUE)))),
         Request(id, AUTH_GET_ACCOUNTS, Some(EmptyObject))}
        : id \in IdsOf(c), url \in InstanceUrls }

\* the instance_url parameters each connection's UI sends in auth.start and
\* auth.callback
OAuthUrls(c) ==
    IF c = "c1" THEN {UrlA, UrlASlash} ELSE {UrlB}

OAuthMessages(c) ==
    UNION {
        {Request(id, AUTH_START, Some(Object1("instance_url", JStr(url)))),
         Request(id, AUTH_CALLBACK,
                 Some(Object2("instance_url", JStr(url), "code", JStr(<<"code">>))))}
        : id \in IdsOf(c), url \in OAuthUrls(c) }

\* messages of every method: params absent, of the wrong shape, and valid;
\* method names the router does not know; a message with no method; a
\* message that is not marked as a request
RouterParams(method) ==
    CASE method \in {PING, SHUTDOWN, AUTH_GET_ACCOUNTS, SETTINGS_GET_ALL,
                     NOTIFICATIONS_CLEAR, INSTANCE_GET} ->
            {None, Some(JScalar)}
      [] method = AUTH_START ->
            {None, Some(EmptyObject), Some(Object1("instance_url", JNum(<<"1">>))),
             Some(Object1("instance_url", JStr(UrlA)))}
      [] method = AUTH_CALLBACK ->
            {None, Some(Object1("instance_url", JStr(UrlA))),
             Some(Object1("code", JStr(<<"code">>))),
             Some(Object2("instance_url", JStr(UrlA), "code", JStr(<<"code">>))),
             Some(Object2("instance_url", JStr(UrlB), "code", JStr(<<"code">>)))}
      [] method \in {AUTH_SWITCH_ACCOUNT, AUTH_DELETE_ACCOUNT} ->
            {None, Some(EmptyObject),
             Some(Object1("account_id", JStr(AccountId("alice", UrlA)))),
             Some(Object1("account_id", JStr(<<"ghost">>)))}
      [] method = AUTH_LOGOUT ->
            {None, Some(Object1("delete_account", JBool(TRUE))),
             Some(Object1("delete_account", JStr(<<"yes">>)))}
      [] method = SETTINGS_GET ->
            {None, Some(EmptyObject), Some(Object1("key", JStr(<<"theme">>))),
             Some(Object1("key", JStr(<<"lang">>)))}
      [] method = SETTINGS_SET ->
            {None, Some(Object1("value", JStr(<<"dark">>))),
             Some(Object1("key", JStr(<<"theme">>))),
             Some(Object2("key", JStr(<<"theme">>), "value", JNum(<<"1">>))),
             Some(Object2("key", JStr(<<"theme">>), "value", JStr(<<"dark">>))),
             Some(Object2("key", JStr(<<"theme">>), "value", JStr(<<"light">>))),
             Some(Object2("key", JStr(<<"lang">>), "value", JStr(<<"en">>)))}
      [] method = TIMELINE_GET ->
            {None, Some(EmptyObject), Some(JScalar),
             Some(Object1("timeline_type", JStr(<<"home">>))),
             Some(Object1("timeline_type", JStr(<<"bogus">>))),
             Some(Object1("timeline_type", JStr(<<"notifications">>))),
             Some(Object1("timeline_type", JStr(<<"bookmarks">>))),
             Some(Object1("timeline_type", JVariant("hashtag", "rust"))),
             Some(Object2("timeline_type", JStr(<<"home">>), "limit", JNum(<<"1">>))),
             Some(Object2("timeline_type", JStr(<<"home">>), "limit", JNum(<<"-1">>))),
             Some(Object2("timeline_type", JStr(<<"home">>),
                          "limit", JStr(<<"1">>)))}
      [] method = POST_CREATE ->
            {None, Some(EmptyObject),
             Some(Object1("content", JStr(<<"hello">>))),
             Some(JObject(("content" :> JStr(<<"hello">>))
                         @@ ("visibility" :> JStr(<<"public">>))
                         @@ ("sensitive" :> JBool(FALSE))
                         @@ ("media_ids" :> JArray(<<>>)))),
             Some(JObject(("content" :> JStr(<<"hello">>))
                         @@ ("visibility" :> JStr(<<"friends">>))
                         @@ ("sensitive" :> JBool(FALSE))
                         @@ ("media_ids" :> JArray(<<>>))))}
      [] method \in {POST_BOOST, POST_UNBOOST, POST_FAVOURITE, POST_UNFAVOURITE} ->
            {None, Some(EmptyObject), Some(Object1("post_id", JNum(<<"1">>))),
             Some(Object1("post_id", JStr(<<"p1">>)))}
      [] method = NOTIFICATIONS_GET ->
            {None, Some(EmptyObject), Some(Object1("limit", JNum(<<"1">>))),
             Some(Object1("limit", JStr(<<"1">>)))}
      [] method = NOTIFICATIONS_DISMISS ->
            {None, Some(EmptyObject),
             Some(Object1("notification_id", JStr(<<"n1">>)))}
      [] method = MEDIA_UPLOAD ->
            {None, Some(EmptyObject), Some(Object1("file_path", JNum(<<"1">>))),
             Some(Object1("file_path", JStr(<<"a.png">>)))}
      [] OTHER -> {None, Some(EmptyObject)}

\* names handle_message has no arm for
UnknownMethods == {"unknown", "post.delete", "auth.set_default", "search"}

\* the messages of one method
MessagesOf(id, method) ==
    {Request(id, method, params) : params \in RouterParams(method)}

RouterMessages ==
    UNION {
        UNION {MessagesOf(id, method) : method \in Methods \cup UnknownMethods}
        \cup {[Request(id, PING, None) EXCEPT !.method = None],
              [Request(id, PING, None) EXCEPT !.message_type = "event"],
              [Request(id, INSTANCE_GET, None) EXCEPT !.message_type = "response"]}
        : id \in Ids }

-----------------------------------------------------------------------------
(* ipc/server.rs: the listener and the connection tasks; main.rs *)

\* the ids a peer stamps its first, second, ... line with; a peer writes
\* no more lines than it has ids
PeerIds(c) == IF c = "c1" THEN <<"1", "3">> ELSE <<"2">>

\* the requests a peer sends: one answered at once, one with a remote call
ServerMessages(id) ==
    {Request(id, PING, None),
     Request(id, AUTH_START, Some(Object1("instance_url", JStr(UrlA))))}

\* lines that are text but no envelope: no JSON, no id, no type, a type
\* that is none of the three
Unparsable(id) ==
    {NotJson,
     ObjectLine(None, Some("request"), Some(PING), None),
     ObjectLine(Some(id), None, Some(PING), None),
     ObjectLine(Some(id), Some("reply"), Some(PING), None)}

\* the connection has a line left to read
LineLeft(c) == Len(wire[c].in) < Len(PeerIds(c))
NextId(c) == PeerIds(c)[Len(wire[c].in) + 1]

\* the connection tasks of the process
Tasks == {c \in Conns : pc[c] \notin {"unconnected", "refused", "closed", "aborted"}}

serverFrame ==
    <<sessionVars, storeVars, oauthVars, now, boot, streams, cache_call>>

\* std::fs::remove_file(PIPE_NAME), then UnixListener::bind(PIPE_NAME)?
bind ==
    /\ listener = "start"
    /\ \E outcome \in {"ok", "err"} :
        IF outcome = "err"
        THEN listener' = "returned" /\ socket_path' = FALSE
        ELSE listener' = "listening" /\ socket_path' = TRUE
    /\ UNCHANGED <<serverFrame, connVars, shutdown_signal>>

\* select!: listener.accept() gives a stream; handle_client_unix is spawned
accept(c) ==
    /\ listener = "listening"
    /\ pc[c] = "unconnected"
    /\ pc' = [pc EXCEPT ![c] = "read"]
    /\ UNCHANGED <<serverFrame, msg, local, response, calls, session_at_entry,
                   wire, listener, shutdown_signal, socket_path>>

\* select!: listener.accept() gives an error for the connection a peer
\* attempts; the error is logged and the loop goes on
accept_failed(c) ==
    /\ listener = "listening"
    /\ pc[c] = "unconnected"
    /\ pc' = [pc EXCEPT ![c] = "refused"]
    /\ listener' = "listening"
    /\ UNCHANGED <<serverFrame, msg, local, response, calls, session_at_entry,
                   wire, shutdown_signal, socket_path>>

\* IpcServer::shutdown: shutdown_tx.send(())
shutdown ==
    /\ listener = "listening"
    /\ ~shutdown_signal
    /\ shutdown_signal' = TRUE
    /\ UNCHANGED <<serverFrame, connVars, listener, socket_path>>

\* select!: shutdown.recv() returns; break
shutdown_received ==
    /\ listener = "listening"
    /\ shutdown_signal
    /\ listener' = "cleanup"
    /\ shutdown_signal' = FALSE
    /\ UNCHANGED <<serverFrame, connVars, socket_path>>

\* let _ = std::fs::remove_file(PIPE_NAME); Ok(())
remove_socket ==
    /\ listener = "cleanup"
    /\ listener' = "returned"
    /\ socket_path' = FALSE
    /\ UNCHANGED <<serverFrame, connVars, shutdown_signal>>

\* main returns what run_server returned: the runtime is dropped and with
\* it every spawned task, at the .await it stands at
main_returns ==
    /\ listener = "returned"
    /\ listener' = "exited"
    /\ pc' = [c \in Conns |-> IF c \in Tasks THEN "aborted" ELSE pc[c]]
    /\ UNCHANGED <<serverFrame, msg, local, response, calls, session_at_entry,
                   wire, shutdown_signal, socket_path>>

\* read_line returns Ok(0): the peer has closed the connection
read_eof(c) ==
    /\ Reading(c)
    /\ pc' = [pc EXCEPT ![c] = "closed"]
    /\ UNCHANGED <<serverFrame, msg, local, response, calls, session_at_entry,
                   wire, listener, shutdown_signal, socket_path>>

\* a mutation of read_failed: the error ends the listener too
read_failed_stops_listener(c) ==
    /\ Reading(c)
    /\ pc' = [pc EXCEPT ![c] = "closed"]
    /\ listener' = "cleanup"
    /\ \E cause \in {"io", "invalid_utf8"} :
        wire' = IF cause = "invalid_utf8" /\ LineLeft(c)
                THEN [wire EXCEPT ![c].in = Append(@, InvalidUtf8)]
                ELSE wire
    /\ UNCHANGED <<serverFrame, msg, local, response, calls, session_at_entry,
                   shutdown_signal, socket_path>>

\* read_line returns Err: an I/O error, or a line that is not UTF-8
read_failed(c) ==
    /\ Reading(c)
    /\ pc' = [pc EXCEPT ![c] = "closed"]
    /\ \E cause \in {"io", "invalid_utf8"} :
        wire' = IF cause = "invalid_utf8" /\ LineLeft(c)
                THEN [wire EXCEPT ![c].in = Append(@, InvalidUtf8)]
                ELSE wire
    /\ UNCHANGED <<serverFrame, msg, local, response, calls, session_at_entry,
                   listener, shutdown_signal, socket_path>>

\* trimmed.is_empty(): continue
read_blank(c) ==
    /\ Reading(c)
    /\ LineLeft(c)
    /\ wire' = [wire EXCEPT ![c].in = Append(@, Blank)]
    /\ UNCHANGED <<serverFrame, pc, msg, local, response, calls,
                   session_at_entry, listener, shutdown_signal, socket_path>>

\* from_str gives Err: the error response with the id "unknown"
parse_failed(c) ==
    /\ Reading(c)
    /\ LineLeft(c)
    /\ \E line \in Unparsable(NextId(c)) :
        /\ IsNone(from_str(line))
        /\ wire' = [wire EXCEPT ![c].in = Append(@, line)]
    /\ response' = [response EXCEPT
                        ![c] = Some(response_err("unknown",
                                   IpcError(PARSE_ERROR, "Failed to parse message")))]
    /\ pc' = [pc EXCEPT ![c] = "respond"]
    /\ UNCHANGED <<serverFrame, msg, local, calls, session_at_entry,
                   listener, shutdown_signal, socket_path>>

\* write_all or flush returns Err: `?` ends handle_client_unix
write_failed(c) ==
    /\ pc[c] = "respond"
    /\ pc' = [pc EXCEPT ![c] = "closed"]
    /\ UNCHANGED <<serverFrame, msg, local, response, calls, session_at_entry,
                   wire, listener, shutdown_signal, socket_path>>

\* from_str gives Ok(msg): handler.handle_message(msg)
serve(c, m) ==
    \/ handle_ping(c, m)
    \/ handle_auth_start(c, m)

-----------------------------------------------------------------------------
(* streaming/mod.rs: StreamManager *)

\* the start_stream calls made on one StreamManager
Streams == {"s1", "s2"}

\* TimelineType: one with a streaming endpoint, one without
TimelineTypes == {"home", "bookmarks"}
HasEndpoint(timeline) ==
    timeline \in {"home", "local", "federated", "hashtag", "list", "direct"}

\* the events one stream publishes before the remote stream falls silent
MaxEvents == 2

\* pc: where the call stands; subscribed: shutdown_rx exists; signal: a
\* message waits in shutdown_rx; task: the spawned listen task; events: the
\* events sent on event_tx; stopped: stop_all was called while the call was
\* running
NotCalled ==
    [pc |-> "idle", timeline |-> "home", result |-> "none", subscribed |-> FALSE,
     signal |-> FALSE, task |-> "none", events |-> 0, stopped |-> FALSE]

Running(s) == streams[s].pc \notin {"idle", "returned"}

streamFrame ==
    <<sessionVars, storeVars, oauthVars, now, boot, connVars, listener,
      shutdown_signal, socket_path, cache_call>>

\* the call is made: display_name, megalodon::generator(..)?
start_stream(s, timeline) ==
    /\ streams[s].pc = "idle"
    /\ \E generated \in RemoteOutcomes :
        streams' = [streams EXCEPT
            ![s] = IF generated = "err"
                   THEN [@ EXCEPT !.pc = "returned", !.timeline = timeline,
                                  !.result = "err"]
                   ELSE [@ EXCEPT !.pc = "subscribe", !.timeline = timeline]]
    /\ UNCHANGED streamFrame

\* let mut shutdown_rx = self.shutdown_tx.subscribe(): the receiver sees
\* what is sent from now on
subscribe(s) ==
    /\ streams[s].pc = "subscribe"
    /\ streams' = [streams EXCEPT ![s].pc = "open", ![s].subscribed = TRUE]
    /\ UNCHANGED streamFrame

\* client.*_streaming().await, or the arm of a type without an endpoint
open_stream(s) ==
    /\ streams[s].pc = "open"
    /\ streams' = [streams EXCEPT
           ![s] = IF HasEndpoint(@.timeline)
                  THEN [@ EXCEPT !.pc = "connected"]
                  ELSE [@ EXCEPT !.pc = "returned", !.result = "ok",
                                 !.subscribed = FALSE, !.signal = FALSE]]
    /\ UNCHANGED streamFrame

\* event_tx.send(STREAM_CONNECTED).await; tokio::spawn(stream.listen(..))
stream_connected(s) ==
    /\ streams[s].pc = "connected"
    /\ streams' = [streams EXCEPT ![s].pc = "wait", ![s].events = @ + 1,
                                  ![s].task = "listening"]
    /\ UNCHANGED streamFrame

\* the listen task is polled: it sends the event of a message it has, or
\* finds none; a task that abort() found in the middle of a poll is dropped
\* when the poll yields
listen(s) ==
    /\ streams[s].task \in {"listening", "finishing"}
    /\ \E message \in BOOLEAN :
        /\ message => streams[s].events < MaxEvents
        /\ streams' = [streams EXCEPT
               ![s].events = IF message THEN @ + 1 ELSE @,
               ![s].task = IF @ = "finishing" THEN "cancelled" ELSE @]
    /\ UNCHANGED streamFrame

\* shutdown_rx.recv().await returns; listen_handle.abort(); Ok(())
shutdown_recv(s) ==
    /\ streams[s].pc = "wait"
    /\ streams[s].signal
    /\ \E polling \in BOOLEAN :
        streams' = [streams EXCEPT
            ![s].pc = "returned", ![s].result = "ok",
            ![s].subscribed = FALSE, ![s].signal = FALSE,
            ![s].task = IF polling THEN "finishing" ELSE "cancelled"]
    /\ UNCHANGED streamFrame

\* let _ = self.shutdown_tx.send(()): every receiver there is gets it
stop_all ==
    /\ streams' = [s \in Streams |->
           [streams[s] EXCEPT !.signal = streams[s].subscribed,
                              !.stopped = @ \/ Running(s)]]
    /\ UNCHANGED streamFrame

-----------------------------------------------------------------------------
(* cache/mod.rs: the account functions called one after the other *)

\* the StoredAccount values saved: one id, the token fresh or renewed, with
\* and without a refresh token and a private key, flagged default or not
SavedAccounts ==
    {[StoredAccount(AccountId("alice", UrlA), UrlA, "alice", token, t)
         EXCEPT !.refresh_token = refresh, !.is_default = flagged,
                !.blindodon_pm_private_key = key] :
        token \in {TokenOf("alice", UrlA), <<"token:", "renewed">>},
        t \in 0..MaxClock,
        refresh \in {None, Some(<<"refresh">>)},
        flagged \in BOOLEAN,
        key \in {None, Some(<<"key">>)}}

cacheFrame ==
    <<sessionVars, settings, oauthVars, now, boot, connVars, listener,
      shutdown_signal, socket_path, streams>>

\* save_account(account) returns Ok
save_account(account, from, to) ==
    /\ cache_call.pc = from
    /\ accounts' = save_account_sql(accounts, account)
    /\ cache_call' = [cache_call EXCEPT !.pc = to]
    /\ UNCHANGED cacheFrame

\* get_account(id) and get_accounts() return Ok
read_accounts(from, to) ==
    /\ cache_call.pc = from
    /\ \E order \in AccountOrders(accounts) :
        cache_call' = [cache_call EXCEPT
            !.pc = to,
            !.got = get_account(accounts, cache_call.second.id),
            !.listed = get_accounts(accounts, order)]
    /\ UNCHANGED <<accounts, cacheFrame>>

\* delete_account(id) returns Ok
delete_account(from, to) ==
    /\ cache_call.pc = from
    /\ accounts' = delete_account_sql(accounts, cache_call.second.id)
    /\ cache_call' = [cache_call EXCEPT !.pc = to]
    /\ UNCHANGED cacheFrame

-----------------------------------------------------------------------------
(* Specifications *)

Startup ==
    \/ initialize
    \/ initialize_query_recent
    \/ initialize_verify
    \/ initialize_write_client
    \/ initialize_write_id
    \/ initialize_default_clear
    \/ initialize_default_set

OAuthSteps(c) ==
    \/ start_auth_store(c)
    \/ complete_auth_fetch(c)
    \/ callback_save(c)
    \/ callback_default_clear(c)
    \/ callback_default_set(c)
    \/ callback_write_client(c)
    \/ callback_write_id(c)
    \/ callback_write_client_only(c)

AccountSteps(c) ==
    \/ logout_clear_client(c)
    \/ logout_clear_id(c)
    \/ logout_delete(c)
    \/ get_accounts_read_id(c)
    \/ get_accounts_query(c)
    \/ switch_write_client(c)
    \/ switch_write_id(c)
    \/ switch_default_clear(c)
    \/ switch_default_set(c)
    \/ delete_clear_client(c)
    \/ delete_clear_id(c)
    \/ delete_row(c)
    \/ write_response(c)

OAuthDispatch(c, m) ==
    \/ handle_auth_start(c, m)
    \/ handle_auth_callback(c, m)

AccountDispatch(c, m) ==
    \/ handle_auth_logout(c, m)
    \/ handle_auth_get_accounts(c, m)
    \/ handle_auth_switch_account(c, m)
    \/ handle_auth_delete_account(c, m)

\* The session manager serving one connection: every authentication method,
\* store and remote failures, the clock.
Next ==
    \/ Startup
    \/ restart
    \/ Tick
    \/ /\ Reading("c1")
       /\ \E m \in SessionMessages("c1") :
             OAuthDispatch("c1", m) \/ AccountDispatch("c1", m)
    \/ OAuthSteps("c1")
    \/ AccountSteps("c1")

Spec == Init /\ [][Next]_vars

\* Two connections at once on the accounts already stored: switch, delete,
\* logout and list.
NextConcurrent ==
    \/ Startup
    \/ \E c \in Conns :
          Reading(c) /\ \E m \in SessionMessages(c) : AccountDispatch(c, m)
    \/ \E c \in Conns : AccountSteps(c)

SpecConcurrent == InitStored /\ [][NextConcurrent]_vars

\* a step as it is when the store statement in it, if any, succeeds
StatementsSucceed ==
    /\ boot'.pc # "failed"
    /\ ~(boot.pc = "default_clear" /\ boot'.pc = "done")
    /\ (boot.pc = "default_set" /\ boot'.pc = "done") =>
          accounts' = set_default_sql(accounts, boot.account.id, now)
    /\ \A c \in Conns :
        /\ (pc[c] = "logout_delete" /\ pc'[c] = "respond") =>
              accounts' = delete_account_sql(accounts, local[c].account_id.v)
        /\ (pc[c] = "get_accounts_query" /\ pc'[c] = "respond") =>
              \E order \in AccountOrders(accounts) :
                  response'[c].v.result.v.accounts =
                      SerializeAll(get_accounts(accounts, order))
        /\ (pc[c] = "read" /\ pc'[c] = "respond") =>
              \/ IsNone(response'[c].v.error)
              \/ response'[c].v.error.v.message # "Database error"
        /\ ~(pc[c] = "switch_default_clear" /\ pc'[c] = "respond")
        /\ (pc[c] = "switch_default_set" /\ pc'[c] = "respond") =>
              accounts' = set_default_sql(accounts, local[c].account_id, now)
        /\ (pc[c] = "delete_row" /\ pc'[c] = "respond") =>
              IsNone(response'[c].v.error)

\* The same two connections with every store statement succeeding.
NextConcurrentStoreOk ==
    \/ Startup /\ StatementsSucceed
    \/ \E c \in Conns :
          /\ Reading(c)
          /\ \E m \in SessionMessages(c) : AccountDispatch(c, m)
          /\ StatementsSucceed
    \/ \E c \in Conns : AccountSteps(c) /\ StatementsSucceed

SpecConcurrentStoreOk == InitStored /\ [][NextConcurrentStoreOk]_vars

SystemDispatch(c, m) ==
    \/ handle_ping(c, m)
    \/ handle_shutdown(c, m)
    \/ handle_unknown(c, m)
    \/ handle_settings_get(c, m)
    \/ handle_settings_set(c, m)
    \/ handle_settings_get_all(c, m)

ClientDispatch(c, m) ==
    \/ handle_timeline_get(c, m)
    \/ handle_post_create(c, m)
    \/ handle_post_boost(c, m)
    \/ handle_post_unboost(c, m)
    \/ handle_post_favourite(c, m)
    \/ handle_post_unfavourite(c, m)
    \/ handle_notifications_get(c, m)
    \/ handle_notifications_clear(c, m)
    \/ handle_notifications_dismiss(c, m)
    \/ handle_media_upload(c, m)
    \/ handle_instance_get(c, m)

ClientSteps(c) ==
    \/ get_timeline(c)
    \/ create_post(c)
    \/ post_action(c)
    \/ get_notifications(c)
    \/ clear_notifications(c)
    \/ dismiss_notification(c)
    \/ upload_media(c)
    \/ get_instance_info(c)

\* handle_message: the whole router serving one connection, every method
\* with present, absent and malformed params.
NextRouter ==
    \/ Startup
    \/ restart
    \/ /\ Reading("c1")
       /\ \E m \in RouterMessages :
             \/ SystemDispatch("c1", m)
             \/ OAuthDispatch("c1", m)
             \/ AccountDispatch("c1", m)
             \/ ClientDispatch("c1", m)
    \/ OAuthSteps("c1")
    \/ AccountSteps("c1")
    \/ ClientSteps("c1")

SpecRouter == Init /\ [][NextRouter]_vars

\* the same, with the history of the connection kept
InitObserved == Started(EmptyTable, {"c1"})

SpecObserved == InitObserved /\ [][NextRouter]_vars

\* Two connections authorizing at once, with the spellings of an instance
\* URL a user may type. The process starts once, on an empty database, where
\* initialize finds neither a default nor a recent account.
NextOAuth ==
    \/ initialize
    \/ initialize_query_recent
    \/ \E c \in Conns :
          Reading(c) /\ \E m \in OAuthMessages(c) : OAuthDispatch(c, m)
    \/ \E c \in Conns : OAuthSteps(c)
    \/ \E c \in Conns : write_response(c)

SpecOAuth == Init /\ [][NextOAuth]_vars

\* The listener and two peers, each writing up to MaxLines lines: requests,
\* blank lines, lines that do not parse, lines that cannot be read.  The
\* process has started on an empty database and restored nothing.
InitServer ==
    /\ client = None
    /\ current_account_id = None
    /\ accounts = EmptyTable
    /\ settings = [k \in {} |-> k]
    /\ PENDING_OAUTH = None
    /\ pending_readers = {}
    /\ now = 0
    /\ boot = [pc |-> "done"]
    /\ pc = [c \in Conns |-> "unconnected"]
    /\ msg = [c \in Conns |-> None]
    /\ local = [c \in Conns |-> NoLocal]
    /\ response = [c \in Conns |-> None]
    /\ calls = [c \in Conns |-> {}]
    /\ session_at_entry = [c \in {} |-> c]
    /\ wire = [c \in Conns |-> [in |-> <<>>, out |-> <<>>]]
    /\ listener = "start"
    /\ shutdown_signal = FALSE
    /\ socket_path = FALSE
    /\ streams = [s \in {} |-> s]
    /\ cache_call = NoCacheCall

NextServer ==
    \/ bind
    \/ \E c \in Conns : accept(c)
    \/ \E c \in Conns : accept_failed(c)
    \/ shutdown
    \/ shutdown_received
    \/ remove_socket
    \/ main_returns
    \/ \E c \in Conns : read_eof(c)
    \/ \E c \in Conns : read_failed(c)
    \/ \E c \in Conns : read_blank(c)
    \/ \E c \in Conns : parse_failed(c)
    \/ \E c \in Conns :
          Reading(c) /\ LineLeft(c) /\ \E m \in ServerMessages(NextId(c)) : serve(c, m)
    \/ \E c \in Conns : start_auth_store(c)
    \/ \E c \in Conns : write_response(c)
    \/ \E c \in Conns : write_failed(c)

SpecServer == InitServer /\ [][NextServer]_vars

\* The same with the runtime's scheduling: a connection task that can go
\* on is polled, the remote call of auth.start has returned by the time
\* its result is stored, and a write that does not fail completes.
SpecServerLive ==
    /\ SpecServer
    /\ \A c \in Conns : WF_vars(start_auth_store(c))
    /\ \A c \in Conns : WF_vars(write_response(c))

\* One StreamManager and two start_stream calls on it, stop_all called at
\* any time from another task.  A call that can go on is polled and so is
\* its listen task; nothing makes anybody call start_stream or stop_all.
InitStreaming ==
    /\ client = None
    /\ current_account_id = None
    /\ accounts = EmptyTable
    /\ settings = [k \in {} |-> k]
    /\ PENDING_OAUTH = None
    /\ pending_readers = {}
    /\ now = 0
    /\ boot = [pc |-> "done"]
    /\ pc = [c \in Conns |-> "unconnected"]
    /\ msg = [c \in Conns |-> None]
    /\ local = [c \in Conns |-> NoLocal]
    /\ response = [c \in Conns |-> None]
    /\ calls = [c \in Conns |-> {}]
    /\ session_at_entry = [c \in {} |-> c]
    /\ wire = [c \in {} |-> c]
    /\ listener = "start"
    /\ shutdown_signal = FALSE
    /\ socket_path = FALSE
    /\ streams = [s \in Streams |-> NotCalled]
    /\ cache_call = NoCacheCall

NextStreaming ==
    \/ \E s \in Streams, timeline \in TimelineTypes : start_stream(s, timeline)
    \/ \E s \in Streams : subscribe(s)
    \/ \E s \in Streams : open_stream(s)
    \/ \E s \in Streams : stream_connected(s)
    \/ \E s \in Streams : listen(s)
    \/ \E s \in Streams : shutdown_recv(s)
    \/ stop_all

SpecStreaming ==
    /\ InitStreaming
    /\ [][NextStreaming]_vars
    /\ \A s \in Streams :
          /\ WF_vars(subscribe(s))
          /\ WF_vars(open_stream(s))
          /\ WF_vars(stream_connected(s))
          /\ WF_vars(shutdown_recv(s))
          /\ WF_vars(listen(s))

\* One caller of the store on the accounts earlier runs left: save_account
\* twice for one id, get_account and get_accounts, delete_account, and
\* get_account again; every statement succeeds.
InitCache ==
    /\ client = None
    /\ current_account_id = None
    /\ accounts \in InitialTables
    /\ settings = [k \in {} |-> k]
    /\ PENDING_OAUTH = None
    /\ pending_readers = {}
    /\ now = 0
    /\ boot = [pc |-> "done"]
    /\ pc = [c \in Conns |-> "unconnected"]
    /\ msg = [c \in Conns |-> None]
    /\ local = [c \in Conns |-> NoLocal]
    /\ response = [c \in Conns |-> None]
    /\ calls = [c \in Conns |-> {}]
    /\ session_at_entry = [c \in {} |-> c]
    /\ wire = [c \in {} |-> c]
    /\ listener = "start"
    /\ shutdown_signal = FALSE
    /\ socket_path = FALSE
    /\ streams = [s \in {} |-> s]
    /\ \E first \in SavedAccounts, second \in SavedAccounts :
        cache_call = [pc |-> "start", first |-> first, second |-> second,
                      got |-> None, listed |-> <<>>]

NextCache ==
    \/ save_account(cache_call.first, "start", "saved")
    \/ save_account(cache_call.second, "saved", "saved_again")
    \/ read_accounts("saved_again", "read")
    \/ delete_account("read", "deleted")
    \/ read_accounts("deleted", "done")

SpecCache == InitCache /\ [][NextCache]_vars

\* One connection with requests to the instance, the other changing the
\* session under it; the session c1's request was taken up in is kept.
InitSnapshot == \E table \in InitialTables : Started(table, {"c1"})

NextSnapshot ==
    \/ Startup
    \/ /\ Reading("c1")
       /\ \E m \in RouterMessages : m.id = "1" /\ ClientDispatch("c1", m)
    \/ ClientSteps("c1")
    \/ write_response("c1")
    \/ /\ Reading("c2")
       /\ \E m \in SessionMessages("c2") : AccountDispatch("c2", m)
    \/ AccountSteps("c2")

SpecSnapshot == InitSnapshot /\ [][NextSnapshot]_vars

\* The router given every frame serde accepts: each message of
\* RouterMessages under each of the three envelope types.
TypedMessages ==
    {[m EXCEPT !.message_type = type] :
        m \in {r \in RouterMessages : r.id = "1"}, type \in MessageTypes}

NextTyped ==
    \/ Startup
    \/ /\ Reading("c1")
       /\ \E m \in TypedMessages :
             \/ SystemDispatch("c1", m)
             \/ OAuthDispatch("c1", m)
             \/ AccountDispatch("c1", m)
             \/ ClientDispatch("c1", m)
    \/ OAuthSteps("c1")
    \/ AccountSteps("c1")
    \/ ClientSteps("c1")

SpecTyped == InitStored /\ [][NextTyped]_vars

\* The listener with one peer connected and one yet to connect; the
\* connected peer asks for shutdown and starts an authorization, the process
\* may be signalled to shut down.
ShutdownMessages ==
    {Request("1", SHUTDOWN, None),
     Request("1", SHUTDOWN, Some(EmptyObject)),
     Request("1", AUTH_START, Some(Object1("instance_url", JStr(UrlA))))}

InitShutdownRequest ==
    \E table \in InitialTables :
        /\ client = None
        /\ current_account_id = None
        /\ accounts = table
        /\ settings = [k \in {} |-> k]
        /\ PENDING_OAUTH = None
        /\ pending_readers = {}
        /\ now = 0
        /\ boot = [pc |-> "start"]
        /\ pc = [c \in Conns |-> IF c = "c1" THEN "read" ELSE "unconnected"]
        /\ msg = [c \in Conns |-> None]
        /\ local = [c \in Conns |-> NoLocal]
        /\ response = [c \in Conns |-> None]
        /\ calls = [c \in Conns |-> {}]
        /\ session_at_entry = [c \in {} |-> c]
        /\ wire = [c \in {} |-> c]
        /\ listener = "listening"
        /\ shutdown_signal = FALSE
        /\ socket_path = TRUE
        /\ streams = [s \in {} |-> s]
        /\ cache_call = NoCacheCall

NextShutdownRequest ==
    \/ Startup
    \/ accept("c2")
    \/ shutdown
    \/ shutdown_received
    \/ remove_socket
    \/ /\ Reading("c1")
       /\ \E m \in ShutdownMessages :
             handle_shutdown("c1", m) \/ handle_auth_start("c1", m)
    \/ start_auth_store("c1")
    \/ Reading("c2") /\ handle_ping("c2", Request("2", PING, None))
    \/ \E c \in Conns : write_response(c)
    \/ \E c \in Conns : read_eof(c)

SpecShutdownRequest == InitShutdownRequest /\ [][NextShutdownRequest]_vars

\* One timeline.get on a restored session, for timeline types with and
\* without a remote call, the limit absent and given as 0, 1 and 2.
TimelineMessages ==
    {Request("1", TIMELINE_GET, Some(Object1("timeline_type", type))) :
        type \in {JStr(<<"home">>), JStr(<<"bookmarks">>), JStr(<<"notifications">>),
                  JStr(<<"direct">>), JVariant("hashtag", "rust")}}
    \cup
    {Request("1", TIMELINE_GET,
             Some(Object2("timeline_type", type, "limit", JNum(limit)))) :
        type \in {JStr(<<"home">>), JStr(<<"bookmarks">>), JStr(<<"notifications">>),
                  JStr(<<"direct">>), JVariant("hashtag", "rust")},
        limit \in {<<"0">>, <<"1">>, <<"2">>}}

NextTimeline ==
    \/ Startup
    \/ Reading("c1") /\ \E m \in TimelineMessages : handle_timeline_get("c1", m)
    \/ get_timeline("c1")

SpecTimeline == InitStored /\ [][NextTimeline]_vars

-----------------------------------------------------------------------------
(* Properties *)

\* no handler and no restore is under way
Quiescent ==
    /\ \A c \in Conns : pc[c] \in {"read", "respond"}
    /\ boot.pc \in {"start", "done", "failed"}

Responded(c, method) ==
    pc[c] = "respond" /\ MethodOf(msg[c].v) = method

Succeeded(c) == IsSome(response[c].v.result)
Failed(c) == IsSome(response[c].v.error)
ErrorCode(c) == response[c].v.error.v.code
Result(c) == response[c].v.result.v

\* the string parameter `key` of the message c is handling
StrParam(c, key) == AsStr(Get(msg[c].v.params.v, key))

\* C1: whatever handle_message returns is of type response, carries the id
\* of the message it was given, and has exactly one of result and error set.
C1_ResponseWellFormed ==
    \A c \in Conns :
        pc[c] = "respond" =>
            /\ IsSome(response[c])
            /\ response[c].v.message_type = "response"
            /\ response[c].v.id = msg[c].v.id
            /\ IsSome(response[c].v.result) # IsSome(response[c].v.error)

\* C1 witness: a message with id "2" and no method at all has been answered
\* with METHOD_NOT_FOUND while the session was authenticated.
C1_Witness ==
    \E c \in Conns :
        /\ pc[c] = "respond"
        /\ IsNone(msg[c].v.method)
        /\ msg[c].v.id = "2"
        /\ Failed(c) /\ ErrorCode(c) = METHOD_NOT_FOUND
        /\ IsSome(client)

\* the methods that need the client
AuthenticatedOnly ==
    {TIMELINE_GET, POST_CREATE, POST_BOOST, POST_UNBOOST, POST_FAVOURITE,
     POST_UNFAVOURITE, NOTIFICATIONS_GET, NOTIFICATIONS_CLEAR,
     NOTIFICATIONS_DISMISS, MEDIA_UPLOAD, INSTANCE_GET}

Anonymous == IsNone(client) /\ IsNone(current_account_id)

\* the step in which handle_message takes up a message of one of those
\* methods while the session is Anonymous
GatedWhileAnonymous(c) ==
    /\ pc[c] = "read"
    /\ pc'[c] # "read"
    /\ MethodOf(msg'[c].v) \in AuthenticatedOnly
    /\ Anonymous

\* C2: while the session is Anonymous every method that needs the client
\* returns NOT_AUTHENTICATED at once, whatever its params, and no remote call
\* is made for it.
C2_AuthGate ==
    [][\A c \in Conns :
          GatedWhileAnonymous(c) =>
              /\ pc'[c] = "respond"
              /\ IsSome(response'[c].v.error)
              /\ response'[c].v.error.v.code = NOT_AUTHENTICATED
              /\ calls'[c] = {}
              /\ UNCHANGED <<client, current_account_id>>]_vars

\* C2 witness: a post.boost without params has been refused with
\* NOT_AUTHENTICATED in the Anonymous session.
C2_Witness ==
    \E c \in Conns :
        /\ Responded(c, POST_BOOST)
        /\ IsNone(msg[c].v.params)
        /\ Anonymous
        /\ Failed(c) /\ ErrorCode(c) = NOT_AUTHENTICATED
        /\ calls[c] = {}

\* InitStored's tables are tables Spec reaches
TableAStored == accounts = TableA /\ boot.pc = "start"
TableABStored == accounts = TableAB /\ boot.pc = "start"

\* the step in which c's auth.switch_account returns because
\* get_current_user failed
SwitchVerificationFails(c) ==
    /\ pc[c] = "read"
    /\ pc'[c] = "respond"
    /\ MethodOf(msg'[c].v) = AUTH_SWITCH_ACCOUNT
    /\ "verify_account_credentials" \in calls'[c]

\* C3: an auth.switch_account whose stored token fails verification returns
\* an error and changes neither session slot nor any row of the accounts
\* table (so the default flags stay as they were).
C3_FailedSwitchInert ==
    [][\A c \in Conns :
          SwitchVerificationFails(c) =>
              /\ IsSome(response'[c].v.error)
              /\ client' = client
              /\ current_account_id' = current_account_id
              /\ accounts' = accounts]_vars

\* C3 witness: the session is Authenticated(A) and a switch to another stored
\* account has just failed verification.
C3_Witness ==
    \E c \in Conns :
        /\ Responded(c, AUTH_SWITCH_ACCOUNT)
        /\ "verify_account_credentials" \in calls[c]
        /\ Failed(c) /\ ErrorCode(c) = API_ERROR
        /\ IsSome(client) /\ IsSome(current_account_id)
        /\ StrParam(c, "account_id") # current_account_id
        /\ StrParam(c, "account_id").v \in DOMAIN accounts

\* C4: a reader never observes a half-updated session: an auth.get_accounts
\* that found the session well formed at its first read does not report
\* authenticated = true with a null current_account_id, nor authenticated =
\* false with an account id, whatever other connections are doing meanwhile.
C4_NoHalfUpdatedSessionObserved ==
    \A c \in Conns :
        (Responded(c, AUTH_GET_ACCOUNTS) /\ local[c].session_ok) =>
            (Result(c).authenticated <=> IsSome(Result(c).current_account_id))

\* both connections have completed a successful auth.switch_account, to
\* different accounts that are both still stored
BothSwitched ==
    /\ \A c \in Conns : Responded(c, AUTH_SWITCH_ACCOUNT) /\ Succeeded(c)
    /\ \A c, d \in Conns :
          c # d => StrParam(c, "account_id") # StrParam(d, "account_id")
    /\ \A c \in Conns : StrParam(c, "account_id").v \in DOMAIN accounts

\* the session holds the client built from the stored account id, and id
SessionIs(id) ==
    /\ current_account_id = Some(id)
    /\ client = Some(from_token(accounts[id].instance_url,
                                accounts[id].access_token))

\* C5: after two concurrent successful switches to A and to B the session is
\* (client of A, A) or (client of B, B).
C5_LastWriterWinsConsistently ==
    BothSwitched => \E c \in Conns : SessionIs(StrParam(c, "account_id").v)

\* C6: whenever no operation is under way the session is Anonymous (both
\* slots empty) or Authenticated (both slots set).
C6_SessionWellFormed ==
    Quiescent => WellFormed(client, current_account_id)

Defaults(table) == {k \in DOMAIN table : table[k].is_default}

\* C7: whenever no operation is under way at most one row of the accounts
\* table has is_default = 1.
C7_AtMostOneDefaultRow ==
    Quiescent => Cardinality(Defaults(accounts)) <= 1

\* C8: in every account list auth.get_accounts returns at most one account
\* has is_default = true (here: even while the table itself has at most one
\* row flagged default).
C8_AtMostOneDefaultListed ==
    \A c \in Conns :
        (Responded(c, AUTH_GET_ACCOUNTS) /\ Cardinality(Defaults(accounts)) <= 1)
            => Cardinality({i \in DOMAIN Result(c).accounts :
                               Result(c).accounts[i].is_default}) <= 1

\* the step in which c's auth.callback, with code and instance_url given,
\* finds no pending authorization or one recorded for another instance
CallbackWithoutMatchingPending(c) ==
    /\ pc[c] = "read"
    /\ pc'[c] # "read"
    /\ MethodOf(msg'[c].v) = AUTH_CALLBACK
    /\ IsSome(msg'[c].v.params)
    /\ IsSome(AsStr(Get(msg'[c].v.params.v, "code")))
    /\ IsSome(AsStr(Get(msg'[c].v.params.v, "instance_url")))
    /\ \/ IsNone(PENDING_OAUTH)
       \/ PENDING_OAUTH.v.instance_url #
              normalize_url(AsStr(Get(msg'[c].v.params.v, "instance_url")).v)

\* C9: such an auth.callback returns an error at once: no remote call, both
\* session slots, the accounts table and the pending slot unchanged.
C9_CallbackFailsClosed ==
    [][\A c \in Conns :
          CallbackWithoutMatchingPending(c) =>
              /\ pc'[c] = "respond"
              /\ IsSome(response'[c].v.error)
              /\ calls'[c] = {}
              /\ UNCHANGED <<client, current_account_id, accounts,
                             PENDING_OAUTH>>]_vars

\* C9 witness: a callback for one instance has failed while the pending slot
\* records another.
C9_Witness ==
    \E c \in Conns :
        /\ Responded(c, AUTH_CALLBACK)
        /\ Failed(c) /\ ErrorCode(c) = API_ERROR
        /\ IsSome(PENDING_OAUTH)
        /\ IsSome(StrParam(c, "instance_url"))
        /\ PENDING_OAUTH.v.instance_url #
               normalize_url(StrParam(c, "instance_url").v)

\* C10: once an auth.callback has succeeded, with the account fetched and
\* the session established, the pending slot is empty.
C10_PendingConsumedBySuccess ==
    \A c \in Conns :
        (/\ Responded(c, AUTH_CALLBACK)
         /\ Succeeded(c)
         /\ "account" \in DOMAIN Result(c))
            => IsNone(PENDING_OAUTH)

\* the step in which c's auth.start returns
StartReturns(c) ==
    /\ pc[c] \in {"read", "start_auth_store"}
    /\ pc'[c] = "respond"
    /\ MethodOf(msg'[c].v) = AUTH_START

\* the pending authorization of a flow started for instance `url`
PendingFor(url) ==
    Some([client_id |-> RegisteredApp(url).client_id,
          client_secret |-> RegisteredApp(url).client_secret,
          instance_url |-> url])

\* the step in which c's auth.callback, with code and instance_url given,
\* looks at a pending authorization
CallbackFindsPending(c) ==
    /\ pc[c] = "read"
    /\ pc'[c] # "read"
    /\ MethodOf(msg'[c].v) = AUTH_CALLBACK
    /\ IsSome(msg'[c].v.params)
    /\ IsSome(AsStr(Get(msg'[c].v.params.v, "code")))
    /\ IsSome(AsStr(Get(msg'[c].v.params.v, "instance_url")))
    /\ IsSome(PENDING_OAUTH)

InstanceMismatch(r) ==
    /\ IsSome(r.error)
    /\ r.error.v.code = API_ERROR
    /\ r.error.v.message = "Auth failed: Instance URL mismatch"

\* C11: there is one pending slot.  A successful auth.start, from whichever
\* connection, leaves in it exactly the client_id, client_secret and instance
\* of the flow it started, whatever was pending before; a failed auth.start
\* leaves it as it was; an auth.callback is refused with an instance mismatch
\* exactly when its instance is not the one now pending.
C11_SecondStartOverwrites ==
    [][\A c \in Conns :
          /\ StartReturns(c) =>
                IF IsSome(response'[c].v.result)
                THEN PENDING_OAUTH' =
                        PendingFor(normalize_url(
                            AsStr(Get(msg'[c].v.params.v, "instance_url")).v))
                ELSE PENDING_OAUTH' = PENDING_OAUTH
          /\ CallbackFindsPending(c) =>
                ((PENDING_OAUTH.v.instance_url #
                     normalize_url(AsStr(Get(msg'[c].v.params.v,
                                             "instance_url")).v))
                 <=> (pc'[c] = "respond" /\ InstanceMismatch(response'[c].v)))]_vars

\* C11 witness: two connections' auth.start both succeeded, one for
\* a.example and one for b.example, and the slot holds b.example's flow only.
C11_Witness ==
    \E c, d \in Conns :
        /\ Responded(c, AUTH_START) /\ Succeeded(c)
        /\ Responded(d, AUTH_START) /\ Succeeded(d)
        /\ normalize_url(StrParam(c, "instance_url").v) = UrlA
        /\ normalize_url(StrParam(d, "instance_url").v) = UrlB
        /\ PENDING_OAUTH = PendingFor(UrlB)

\* C17: two auth.callback for the same remote user whose instance_url
\* parameters normalize to the same URL update one stored account: no two
\* rows of the accounts table have the same username and instance.
C17_OneAccountPerIdentity ==
    \A j, k \in DOMAIN accounts :
        (/\ accounts[j].username = accounts[k].username
         /\ accounts[j].instance_url = accounts[k].instance_url) => j = k

\* C12: once an auth.delete_account of an account has completed, the session
\* is not that account's: deleting the active account leaves the session
\* Anonymous, also when an auth.switch_account to the same id runs at the
\* same time.
C12_DeleteActiveForcesAnonymous ==
    \A c \in Conns :
        (/\ Quiescent
         /\ Responded(c, AUTH_DELETE_ACCOUNT)
         /\ Succeeded(c))
            => current_account_id # Some(StrParam(c, "account_id").v)

\* the step in which c's auth.logout returns
LogoutReturns(c) ==
    /\ pc[c] \in {"logout_clear_id", "logout_delete"}
    /\ pc'[c] = "respond"

\* delete_account = true was passed with the message c is handling
DeleteRequested(c) ==
    /\ IsSome(msg[c].v.params)
    /\ AsBool(Get(msg[c].v.params.v, "delete_account")) = Some(TRUE)

\* C13: when auth.logout returns, both session slots are empty and the
\* response is a success; the row of the account that was current is gone
\* from the accounts table if delete_account = true was passed and an account
\* id was current, and otherwise the table is as it was.
C13_LogoutDeletesIffAsked ==
    [][\A c \in Conns :
          LogoutReturns(c) =>
              /\ client' = None /\ current_account_id' = None
              /\ IsSome(response'[c].v.result)
              /\ IF DeleteRequested(c) /\ IsSome(local[c].account_id)
                 THEN /\ local[c].account_id.v \notin DOMAIN accounts'
                      /\ \A k \in DOMAIN accounts \ {local[c].account_id.v} :
                            k \in DOMAIN accounts' /\ accounts'[k] = accounts[k]
                 ELSE accounts' = accounts]_vars

\* the step in which initialize gives up on the account it selected: no
\* client could be built from it, or its token failed verification
RestoreGivesUp ==
    /\ boot.pc = "verify"
    /\ boot'.pc \notin {"verify", "write_client", "start"}

\* C14: when the account selected at startup fails verification, initialize
\* completes without an error, both session slots stay empty and the
\* accounts table is left exactly as it was.
C14_RestoreFallback ==
    [][RestoreGivesUp =>
          /\ boot'.pc = "done"
          /\ client' = None /\ current_account_id' = None
          /\ accounts' = accounts]_vars

\* C14 witness: startup is over, the session is Anonymous, no request has
\* been taken up, and the stored account is still there, flagged default.
C14_Witness ==
    /\ boot.pc = "done"
    /\ Anonymous
    /\ \A c \in Conns : pc[c] = "read" /\ IsNone(msg[c])
    /\ Defaults(accounts) # {}

\* C15: initialize never returns an error: a failed read of the accounts
\* table at startup is only logged.
C15_RestoreReadFailureDowngraded ==
    boot.pc # "failed"

\* the row of `account` is in `after` with its token and flagged default, and
\* every other row of `before` is in `after` as it was
Upserted(before, after, account) ==
    /\ DOMAIN after = DOMAIN before \cup {account.id}
    /\ after[account.id].access_token = account.access_token
    /\ after[account.id].instance_url = account.instance_url
    /\ after[account.id].is_default
    /\ \A k \in DOMAIN before \ {account.id} : after[k] = before[k]

\* the step of c's handler from one position to another
Step(c, from, to) == pc[c] = from /\ pc'[c] = to

StoredTokens == {accounts[k].access_token : k \in DOMAIN accounts}

\* an account or user record sent to the UI has no token field, and none of
\* its text fields is a stored token
NoToken(record) ==
    /\ "access_token" \notin DOMAIN record
    /\ "refresh_token" \notin DOMAIN record
    /\ \A f \in DOMAIN record \cap {"id", "instance_url", "username"} :
          record[f] \notin StoredTokens

\* C18: no response carries the access_token or refresh_token of a stored
\* account: not the account of auth.callback, not the list of
\* auth.get_accounts, not the account and user of auth.switch_account.
C18_NoTokenOverIpc ==
    \A c \in Conns :
        (pc[c] = "respond" /\ Succeeded(c)) =>
            /\ MethodOf(msg[c].v) = AUTH_CALLBACK =>
                  ("account" \in DOMAIN Result(c) => NoToken(Result(c).account))
            /\ MethodOf(msg[c].v) = AUTH_GET_ACCOUNTS =>
                  \A i \in DOMAIN Result(c).accounts :
                      NoToken(Result(c).accounts[i])
            /\ MethodOf(msg[c].v) = AUTH_SWITCH_ACCOUNT =>
                  NoToken(Result(c).account) /\ NoToken(Result(c).user)

\* C18 witness: an auth.switch_account has returned the record of an account
\* whose access token the table holds.
C18_Witness ==
    \E c \in Conns :
        /\ Responded(c, AUTH_SWITCH_ACCOUNT)
        /\ Succeeded(c)
        /\ Result(c).account.id \in DOMAIN accounts
        /\ accounts[Result(c).account.id].access_token # <<>>

\* the step in which handle_message takes up a message whose method it has
\* no arm for, or that names no method
UnknownMethodTaken(c) ==
    /\ pc[c] = "read"
    /\ pc'[c] # "read"
    /\ \/ IsNone(msg'[c].v.method)
       \/ msg'[c].v.method.v \notin Methods

\* C19: a request for a method that is not dispatched is answered at once
\* with METHOD_NOT_FOUND; the session slots, the pending slot, the accounts
\* and the settings stay as they were and no remote call is made.
C19_UnknownMethod ==
    [][\A c \in Conns :
          UnknownMethodTaken(c) =>
              /\ pc'[c] = "respond"
              /\ IsSome(response'[c].v.error)
              /\ response'[c].v.error.v.code = METHOD_NOT_FOUND
              /\ calls'[c] = {}
              /\ UNCHANGED <<client, current_account_id, PENDING_OAUTH,
                             accounts, settings>>]_vars

\* C19 witness: post.delete, a declared name without a handler, has been
\* answered with METHOD_NOT_FOUND while a session, a pending authorization
\* and a stored account existed.
C19_Witness ==
    \E c \in Conns :
        /\ Responded(c, "post.delete")
        /\ Failed(c) /\ ErrorCode(c) = METHOD_NOT_FOUND
        /\ IsSome(client) /\ IsSome(current_account_id)
        /\ IsSome(PENDING_OAUTH)
        /\ DOMAIN accounts # {}

\* the string fields a method requires in its params
RequiredStrings(method) ==
    CASE method = AUTH_START -> {"instance_url"}
      [] method = AUTH_CALLBACK -> {"code", "instance_url"}
      [] method \in {AUTH_SWITCH_ACCOUNT, AUTH_DELETE_ACCOUNT} -> {"account_id"}
      [] method = SETTINGS_GET -> {"key"}
      [] method = SETTINGS_SET -> {"key", "value"}
      [] method \in {POST_BOOST, POST_UNBOOST, POST_FAVOURITE, POST_UNFAVOURITE} ->
            {"post_id"}
      [] method = NOTIFICATIONS_DISMISS -> {"notification_id"}
      [] method = MEDIA_UPLOAD -> {"file_path"}
      [] method = POST_CREATE -> {"content", "visibility"}
      [] OTHER -> {}

\* the methods with required params
WithRequiredParams ==
    {AUTH_START, AUTH_CALLBACK, AUTH_SWITCH_ACCOUNT, AUTH_DELETE_ACCOUNT,
     SETTINGS_GET, SETTINGS_SET, TIMELINE_GET, POST_CREATE, POST_BOOST,
     POST_UNBOOST, POST_FAVOURITE, POST_UNFAVOURITE, NOTIFICATIONS_DISMISS,
     MEDIA_UPLOAD}

\* the params of m are missing, or lack a required field, or have it with the
\* wrong type
RequiredParamsInvalid(m) ==
    \/ IsNone(m.params)
    \/ m.params.v.kind # "object"
    \/ \E k \in RequiredStrings(m.method.v) : IsNone(AsStr(Get(m.params.v, k)))
    \/ /\ m.method.v = TIMELINE_GET
       /\ \/ IsNone(Get(m.params.v, "timeline_type"))
          \/ IsNone(TimelineTypeOf(Get(m.params.v, "timeline_type").v))
    \/ /\ m.method.v = POST_CREATE
       /\ \/ AsStr(Get(m.params.v, "visibility")).v \notin
                 {<<v>> : v \in Visibilities}
          \/ IsNone(AsBool(Get(m.params.v, "sensitive")))
          \/ IsNone(Get(m.params.v, "media_ids"))
          \/ Get(m.params.v, "media_ids").v.t # "array"

\* the step in which handle_message takes up such a message of a method with
\* required params, the auth gate passed
InvalidParamsTaken(c) ==
    /\ pc[c] = "read"
    /\ pc'[c] # "read"
    /\ IsSome(msg'[c].v.method)
    /\ msg'[c].v.method.v \in WithRequiredParams
    /\ msg'[c].v.method.v \in AuthenticatedOnly => IsSome(client)
    /\ RequiredParamsInvalid(msg'[c].v)

\* C20: a request of a method with required params whose params are missing
\* or malformed is answered at once with INVALID_PARAMS: no remote call is
\* made and the session slots, the pending slot, the accounts and the
\* settings stay as they were.
C20_InvalidParamsInert ==
    [][\A c \in Conns :
          InvalidParamsTaken(c) =>
              /\ pc'[c] = "respond"
              /\ IsSome(response'[c].v.error)
              /\ response'[c].v.error.v.code = INVALID_PARAMS
              /\ calls'[c] = {}
              /\ UNCHANGED <<client, current_account_id, PENDING_OAUTH,
                             accounts, settings>>]_vars

\* C20 witness: with a session established, a settings.set whose value is a
\* number has been answered with INVALID_PARAMS and nothing was stored under
\* its key.
C20_Witness ==
    \E c \in Conns :
        /\ Responded(c, SETTINGS_SET)
        /\ IsSome(msg[c].v.params)
        /\ IsSome(StrParam(c, "key"))
        /\ IsSome(Get(msg[c].v.params.v, "value"))
        /\ IsNone(StrParam(c, "value"))
        /\ Failed(c) /\ ErrorCode(c) = INVALID_PARAMS
        /\ calls[c] = {}
        /\ StrParam(c, "key").v \notin DOMAIN settings
        /\ IsSome(client)

\* C21: a request answered with an error, of whatever code, leaves both
\* session slots as they were when the request was taken up.
C21_FailedRequestKeepsSession ==
    \A c \in DOMAIN session_at_entry :
        (pc[c] = "respond" /\ Failed(c)) =>
            session_at_entry[c] = Some(<<client, current_account_id>>)

\* the step of connection c from label `from` in which its handler returns
Returns(c, from) == pc[c] = from /\ pc'[c] = "respond"
\* what that step returns
SucceededNext(c) == IsSome(response'[c].v.result)
FailedNext(c) == IsSome(response'[c].v.error)
ResultNext(c) == response'[c].v.result.v
ErrorCodeNext(c) == response'[c].v.error.v.code
\* the step that takes up a message of the method and answers it at once
Answers(c, method) ==
    /\ Returns(c, "read")
    /\ IsSome(msg'[c].v.method)
    /\ msg'[c].v.method.v = method

\* the list a successful auth.get_accounts may carry for the table
Listings(table) ==
    {SerializeAll(get_accounts(table, order)) : order \in AccountOrders(table)}

\* C22: where a caller-facing request reads or writes the store, a failed
\* statement is answered with INTERNAL_ERROR: a success answer carries what
\* the store holds (reads) or finds its write done in the store (writes).
C22_PersistenceErrorsReported ==
    [][\A c \in Conns :
          /\ (Returns(c, "get_accounts_query") /\ SucceededNext(c)) =>
                ResultNext(c).accounts \in Listings(accounts)
          /\ (Returns(c, "logout_delete") /\ SucceededNext(c)) =>
                local[c].account_id.v \notin DOMAIN accounts'
          /\ (\/ Returns(c, "switch_default_clear")
              \/ Returns(c, "switch_default_set")) /\ SucceededNext(c) =>
                (local[c].account_id \in DOMAIN accounts =>
                    /\ accounts'[local[c].account_id].is_default
                    /\ accounts'[local[c].account_id].last_used_at =
                           CurrentTimestamp(now))
          /\ (Returns(c, "delete_row") /\ SucceededNext(c)) =>
                local[c].account_id \notin DOMAIN accounts'
          /\ (Returns(c, "delete_row") /\ FailedNext(c)) =>
                ErrorCodeNext(c) = INTERNAL_ERROR
          /\ (Answers(c, SETTINGS_GET) /\ SucceededNext(c)) =>
                ResultNext(c).value = get_setting(settings, ResultNext(c).key)
          /\ (Answers(c, SETTINGS_SET) /\ SucceededNext(c)) =>
                LET p == msg'[c].v.params.v
                IN  get_setting(settings', AsStr(Get(p, "key")).v) =
                        AsStr(Get(p, "value"))
          /\ (Answers(c, SETTINGS_GET_ALL) /\ SucceededNext(c)) =>
                ResultNext(c).settings = settings
          /\ \A method \in {SETTINGS_GET, SETTINGS_SET, SETTINGS_GET_ALL} :
                (Answers(c, method) /\ FailedNext(c)) =>
                    ErrorCodeNext(c) \in {INTERNAL_ERROR, INVALID_PARAMS}]_vars

\* the labels at which a handler awaits the remote call of its method
RemoteLabels ==
    {"get_timeline", "create_post", "get_instance_info", "get_notifications",
     "clear_notifications", "dismiss_notification", "upload_media",
     "complete_auth_fetch"} \cup PostActions

\* the step in which the remote call of c's request has returned: for
\* auth.start it is the step that takes the message up with valid params
RemoteCallReturns(c) ==
    \/ \E label \in RemoteLabels : Returns(c, label)
    \/ Answers(c, AUTH_START) /\ ~RequiredParamsInvalid(msg'[c].v)

\* C23: when the remote call of timeline.get, post.create, post.boost,
\* post.unboost, post.favourite, post.unfavourite, notifications.get,
\* notifications.clear, notifications.dismiss, media.upload, instance.get,
\* auth.start or auth.callback (the token exchange) fails, the response is an
\* error with code API_ERROR and both session slots stay as they were.
C23_RemoteFailureIsApiError ==
    [][\A c \in Conns :
          (RemoteCallReturns(c) /\ FailedNext(c)) =>
              /\ ErrorCodeNext(c) = API_ERROR
              /\ UNCHANGED <<client, current_account_id>>]_vars

\* C23 witness: with a session present, a timeline.get whose call of the
\* instance was made has been answered with API_ERROR.
C23_Witness ==
    \E c \in Conns :
        /\ Responded(c, TIMELINE_GET)
        /\ "get_timeline" \in calls[c]
        /\ Failed(c) /\ ErrorCode(c) = API_ERROR
        /\ IsSome(client) /\ IsSome(current_account_id)

\* C24: a successful settings.set(k, v) leaves exactly one value under k, v,
\* and the other keys as they were; no other step changes the settings; a
\* successful settings.get(k) returns the value under k, and for a key that
\* was never set it returns the absent value, the only error of a
\* well-formed settings.get being the failure of the store.
C24_SettingsLastWriteWins ==
    [][\A c \in Conns :
          /\ (Answers(c, SETTINGS_SET) /\ SucceededNext(c)) =>
                LET p == msg'[c].v.params.v
                    k == AsStr(Get(p, "key")).v
                    v == AsStr(Get(p, "value")).v
                IN  /\ DOMAIN settings' = DOMAIN settings \cup {k}
                    /\ settings'[k] = v
                    /\ \A other \in DOMAIN settings \ {k} :
                          settings'[other] = settings[other]
          /\ ~(Answers(c, SETTINGS_SET) /\ SucceededNext(c)) =>
                (pc'[c] # pc[c] => UNCHANGED settings)
          /\ Answers(c, SETTINGS_GET) /\ ~RequiredParamsInvalid(msg'[c].v) =>
                LET k == AsStr(Get(msg'[c].v.params.v, "key")).v
                IN  /\ SucceededNext(c) =>
                          /\ ResultNext(c).key = k
                          /\ ResultNext(c).value =
                                 IF k \in DOMAIN settings
                                 THEN Some(settings[k]) ELSE None
                    /\ FailedNext(c) => ErrorCodeNext(c) = INTERNAL_ERROR]_vars

\* C24 witness: theme was set more than once and stands at "light", another
\* key is stored beside it, and a settings.get of theme has returned "light".
C24_Witness ==
    \E c \in Conns :
        /\ Responded(c, SETTINGS_GET)
        /\ Succeeded(c)
        /\ Result(c).key = <<"theme">>
        /\ Result(c).value = Some(<<"light">>)
        /\ DOMAIN settings = {<<"theme">>, <<"lang">>}

-----------------------------------------------------------------------------
(* The connection loop *)

\* the connection task takes a line off its stream in this step
Takes(c) == Len(wire'[c].in) = Len(wire[c].in) + 1
Taken(c) == wire'[c].in[Len(wire'[c].in)]

\* a line that is no blank line and gives no message
Malformed(line) == line # Blank /\ IsNone(from_str(line))

ParseErrorResponse ==
    response_err("unknown", IpcError(PARSE_ERROR, "Failed to parse message"))

ParseErrorAnswered(c) ==
    /\ pc'[c] = "respond"
    /\ response'[c] = Some(ParseErrorResponse)
    /\ msg'[c] = None
    /\ calls'[c] = {}
    /\ UNCHANGED <<sessionVars, storeVars, oauthVars>>

\* C25: a line that fails to parse does not end the connection: the step
\* that takes it leaves the PARSE_ERROR response with the id "unknown" to be
\* written, hands nothing to the router, changes no session slot and no
\* store, and the write of that response puts the task back at its read.
C25_MalformedFrameAnswered ==
    [][\A c \in Conns :
          /\ (Takes(c) /\ Malformed(Taken(c))) => ParseErrorAnswered(c)
          /\ (/\ pc[c] = "respond"
              /\ response[c] = Some(ParseErrorResponse)
              /\ Len(wire'[c].out) = Len(wire[c].out) + 1)
             => /\ pc'[c] = "read"
                /\ wire'[c].out = Append(wire[c].out, ParseErrorResponse)]_vars

\* the same for the lines that are text
C25_TextLineAnswered ==
    [][\A c \in Conns :
          (Takes(c) /\ Malformed(Taken(c)) /\ Taken(c) # InvalidUtf8)
          => ParseErrorAnswered(c)]_vars

\* a bad line was answered and a request after it on the same connection too
C25_AnsweredAfterBadLine ==
    /\ Len(wire["c1"].out) = 2
    /\ wire["c1"].out[1] = ParseErrorResponse
    /\ wire["c1"].out[2].id = "3"
    /\ IsSome(wire["c1"].out[2].result)

\* the ids of the responses the lines of a connection call for, in the
\* order of the lines: the id of the message for a line that parses,
\* "unknown" for one that does not, none for a blank or unreadable line
RECURSIVE ExpectedIds(_)
ExpectedIds(lines) ==
    IF lines = <<>> THEN <<>>
    ELSE LET line == lines[Len(lines)]
             before == ExpectedIds(SubSeq(lines, 1, Len(lines) - 1))
         IN  IF line = Blank \/ line = InvalidUtf8 THEN before
             ELSE Append(before, IF IsSome(from_str(line))
                                 THEN from_str(line).v.id ELSE "unknown")

WrittenIds(c) == [i \in 1..Len(wire[c].out) |-> wire[c].out[i].id]

\* what is written on a connection answers its lines one for one, in their
\* order and with their ids, at most one line is unanswered, and none is
\* when the task stands at its read
Sequential(c) ==
    LET expected == ExpectedIds(wire[c].in)
        written == WrittenIds(c)
    IN  /\ Len(written) <= Len(expected)
        /\ written = SubSeq(expected, 1, Len(written))
        /\ Len(expected) - Len(written) <= 1
        /\ pc[c] = "read" => Len(written) = Len(expected)
        /\ \A i \in 1..Len(wire[c].out) :
              wire[c].out[i].message_type = "response"

\* the k-th line of the connection that calls for a response has been taken
Asked(c, k) == Len(ExpectedIds(wire[c].in)) >= k
Answered(c, k) == Len(wire[c].out) >= k
Ended(c) == pc[c] \in {"closed", "aborted"}

\* C26: on one connection every non-empty line that parses gets exactly one
\* response with its id, written before the next line is read, so the
\* responses come in the order of the requests; and every request is
\* answered in the end unless the connection ends first.
C26_SequentialPerConnection ==
    /\ [](\A c \in Conns : Sequential(c))
    /\ \A c \in Conns : \A k \in 1..Len(PeerIds(c)) :
          Asked(c, k) ~> (Answered(c, k) \/ Ended(c))

\* two requests of one connection answered in their order, the second one
\* after its remote call
C26_Witness ==
    /\ WrittenIds("c1") = <<"1", "3">>
    /\ \A i \in 1..2 : IsSome(from_str(wire["c1"].in[i]))
    /\ wire["c1"].in[2].method = Some(AUTH_START)
    /\ IsSome(wire["c1"].out[2].result)

\* the connection's loop ends in this step, or its accept fails
Closes(c) == pc[c] # "closed" /\ pc'[c] = "closed"
Refused(c) == pc[c] # "refused" /\ pc'[c] = "refused"

\* what belongs to the other connections is left as it is
OthersUntouched(c) ==
    \A d \in Conns \ {c} :
        /\ pc'[d] = pc[d]
        /\ msg'[d] = msg[d]
        /\ response'[d] = response[d]
        /\ wire'[d] = wire[d]

SentIds(c) == {PeerIds(c)[i] : i \in 1..Len(PeerIds(c))}

\* C27: a connection is written only responses to its own requests (or the
\* "unknown" of its own unparsable lines); a malformed line, an end of
\* stream, a read error or a write error on one connection ends at most
\* that connection's loop and leaves the other connections and the accept
\* loop as they are, and after a failed accept the listener still listens.
C27_ConnectionIsolation ==
    /\ [](\A c \in Conns : \A i \in 1..Len(wire[c].out) :
              wire[c].out[i].id \in SentIds(c) \cup {"unknown"})
    /\ [][\A c \in Conns :
             /\ (Closes(c) \/ (Takes(c) /\ Malformed(Taken(c))))
                => (OthersUntouched(c) /\ listener' = listener)
             /\ Refused(c) => (OthersUntouched(c) /\ listener' = "listening")]_vars

\* one connection has ended on an unreadable line, the accept of it is long
\* past, and the other connection is in the middle of a request and already
\* has an answer to a line of its own
C27_Witness ==
    /\ pc["c2"] = "closed"
    /\ wire["c2"].in = <<InvalidUtf8>>
    /\ pc["c1"] = "start_auth_store"
    /\ WrittenIds("c1") = <<"unknown">>
    /\ listener = "listening"

-----------------------------------------------------------------------------
(* The listener's shutdown *)

\* the listener has seen the shutdown signal
Observed == listener \in {"cleanup", "returned", "exited"}

\* a connection is accepted and its handler spawned in this step
Accepts(c) == pc[c] = "unconnected" /\ pc'[c] = "read"

\* the listener accepts while it has not seen the signal and only then,
\* leaves its loop only by seeing the signal, and has removed the socket
\* path when it has returned
ListenerCooperative ==
    /\ [][\A c \in Conns : Accepts(c) => (listener = "listening" /\ ~Observed')]_vars
    /\ [][(listener = "listening" /\ listener' # "listening")
            => (shutdown_signal /\ listener' = "cleanup")]_vars
    /\ [](listener \in {"returned", "exited"} => ~socket_path)

\* no handler that is running is aborted
HandlersFinish ==
    [][\A c \in Conns : pc[c] # "aborted" => pc'[c] # "aborted"]_vars

\* C28: the listener accepts and spawns until it sees the shutdown signal;
\* once it has, it accepts no further connection, returns and removes its
\* socket path, and the handlers already running are not aborted: they may
\* finish the request they are in.
C28_CooperativeShutdown ==
    /\ ListenerCooperative
    /\ HandlersFinish

-----------------------------------------------------------------------------
(* The streaming relay *)

Returned(s) == streams[s].pc = "returned"

\* a call that was running when stop_all was called aborts its listen task
\* and returns
StoppedCallsReturn ==
    \A s \in Streams :
        streams[s].stopped ~> (Returned(s) /\ streams[s].task # "listening")

\* a stream whose call has returned publishes nothing
SilentAfterReturn ==
    [][\A s \in Streams : Returned(s) => streams'[s].events = streams[s].events]_vars

\* a call for a timeline type with an endpoint returns only after stop_all
ReturnsOnlyWhenStopped ==
    [](\A s \in Streams :
          (Returned(s) /\ HasEndpoint(streams[s].timeline)) => streams[s].stopped)

\* C29: after stop_all is called every start_stream call that is running
\* at that moment aborts its listen task and returns in the end, and from
\* then on its stream publishes no event; a call for a supported timeline
\* type returns only after a stop signal.
C29_StreamingCancellation ==
    /\ StoppedCallsReturn
    /\ SilentAfterReturn
    /\ ReturnsOnlyWhenStopped

-----------------------------------------------------------------------------
(* Startup restore *)

BootStep(from, to) == boot.pc = from /\ boot'.pc = to

\* the account restore goes on with is the flagged one if there is one,
\* else one used last, and with an empty table restore ends Anonymous
RestoreSelects ==
    /\ BootStep("start", "verify") => boot'.account.id \in Defaults(accounts)
    /\ BootStep("start", "query_recent") => Defaults(accounts) = {}
    /\ BootStep("query_recent", "verify") =>
          /\ boot'.account.id \in DOMAIN accounts
          /\ \A k \in DOMAIN accounts :
                accounts[k].last_used_at.t
                    <= accounts[boot'.account.id].last_used_at.t
    /\ BootStep("query_recent", "done") =>
          /\ DOMAIN accounts = {}
          /\ client' = None /\ current_account_id' = None

\* restore of an account whose token verified ends in this step
RestoreSucceeds ==
    boot.pc \in {"default_clear", "default_set"} /\ boot'.pc = "done"

SessionRestored ==
    /\ client' = Some(from_token(boot.account.instance_url,
                                 boot.account.access_token))
    /\ current_account_id' = Some(boot.account.id)

MarkedDefault ==
    /\ boot.account.id \in DOMAIN accounts'
    /\ accounts'[boot.account.id].is_default
    /\ accounts'[boot.account.id].last_used_at = CurrentTimestamp(now)
    /\ Defaults(accounts') = {boot.account.id}

\* C30: initialize restores the account flagged default if there is one,
\* else the one with the latest last_used_at, and none from an empty store;
\* when the token of that account verifies, initialize ends with the session
\* Authenticated(that id) on a client built from the stored token and with
\* that account the one default, its last_used_at refreshed.
C30_RestoreSelectsAndMarks ==
    [][/\ RestoreSelects
       /\ RestoreSucceeds => (SessionRestored /\ MarkedDefault)]_vars

\* the same, as far as the session goes and where set_default_account's
\* two statements both took effect
C30_RestoreWhereStatementsSucceed ==
    [][/\ RestoreSelects
       /\ RestoreSucceeds => SessionRestored
       /\ (BootStep("default_set", "done") /\ accounts' # accounts)
             => MarkedDefault]_vars

-----------------------------------------------------------------------------
(* auth.switch_account, the store, the active account *)

\* auth.switch_account returns its success response in this step
SwitchSucceeds(c) ==
    /\ Returns(c, "switch_default_clear") \/ Returns(c, "switch_default_set")
    /\ SucceededNext(c)

\* the session is Authenticated(id) on a client built from the stored token
SwitchedSession(c) ==
    LET id == local[c].account_id
    IN  /\ current_account_id' = Some(id)
        /\ id \in DOMAIN accounts'
        /\ client' = Some(from_token(accounts'[id].data.instance_url,
                                     accounts'[id].access_token))

OnlyDefault(c) == Defaults(accounts') = {local[c].account_id}

\* C31: whenever auth.switch_account(id) returns success the session is
\* Authenticated(id) on a client built from that account's stored token, and
\* id is the one and only account flagged default in the store.
C31_SwitchMarksDefault ==
    [][\A c \in Conns :
          SwitchSucceeds(c) => (SwitchedSession(c) /\ OnlyDefault(c))]_vars

\* the same, the flag only where both statements of set_default_account
\* took effect
C31_SwitchWhereStatementsSucceed ==
    [][\A c \in Conns :
          /\ SwitchSucceeds(c) => SwitchedSession(c)
          /\ (SwitchSucceeds(c) /\ accounts' # accounts) => OnlyDefault(c)]_vars

\* the accounts of the list that carry the id
ListedWith(id) ==
    {i \in 1..Len(cache_call.listed) : cache_call.listed[i].id = id}

\* the record read back is the second one saved, field by field, the
\* private key apart
ReadBack ==
    LET saved == cache_call.second
        got == cache_call.got
    IN  /\ Cardinality(ListedWith(saved.id)) = 1
        /\ IsSome(got)
        /\ got.v.access_token = saved.access_token
        /\ got.v.refresh_token = saved.refresh_token
        /\ got.v.id = saved.id
        /\ got.v.instance_url = saved.instance_url
        /\ got.v.username = saved.username
        /\ got.v.added_at = saved.added_at
        /\ got.v.last_used_at = saved.last_used_at
        /\ got.v.is_default = saved.is_default

\* C32: after save_account(a1) and save_account(a2) with the id of a1,
\* get_accounts holds exactly one account with that id and get_account(id)
\* gives a record with the tokens of a2 and every other field of a2; after
\* delete_account(id), get_account(id) gives none.
C32_SaveIsUpsert ==
    /\ cache_call.pc = "read" =>
          /\ ReadBack
          /\ cache_call.got.v = cache_call.second
    /\ cache_call.pc = "done" =>
          /\ IsNone(cache_call.got)
          /\ ListedWith(cache_call.second.id) = {}

\* the same without the private key
C32_SaveIsUpsertKeyApart ==
    /\ cache_call.pc = "read" => ReadBack
    /\ cache_call.pc = "done" =>
          /\ IsNone(cache_call.got)
          /\ ListedWith(cache_call.second.id) = {}

\* C33: with no store failure, whenever every call has completed and
\* current_account_id is set, the accounts table has a row with that id.
C33_ActiveAccountStored ==
    (Quiescent /\ IsSome(current_account_id))
        => current_account_id.v \in DOMAIN accounts

-----------------------------------------------------------------------------
(* auth.callback when the user cannot be fetched *)

\* auth.callback has been answered with error_fetching_user
UserFetchFailed(c) ==
    /\ Responded(c, AUTH_CALLBACK)
    /\ Succeeded(c)
    /\ "error_fetching_user" \in DOMAIN response[c].v.result.v

\* C34: an auth.callback whose token exchange succeeds and whose user fetch
\* fails returns success with error_fetching_user, puts the new client in the
\* client slot, writes no row of accounts in any of its steps and leaves
\* current_account_id as it was when the request was taken up.
C34_UserFetchFailedKeepsAccount ==
    [][\A c \in DOMAIN session_at_entry :
        /\ (pc[c] = "read" /\ pc'[c] # "read"
                /\ MethodOf(msg'[c].v) = AUTH_CALLBACK) =>
              /\ accounts' = accounts
              /\ <<client, current_account_id>>' = <<client, current_account_id>>
        /\ (pc[c] = "complete_auth_fetch"
                /\ pc'[c] = "callback_write_client_only") =>
              /\ accounts' = accounts
              /\ <<client, current_account_id>>' = <<client, current_account_id>>
              /\ local'[c].client.access_token \in
                    {TokenOf(u, local[c].instance_url) : u \in Users}
        /\ Returns(c, "callback_write_client_only") =>
              /\ SucceededNext(c)
              /\ ResultNext(c).success
              /\ "error_fetching_user" \in DOMAIN ResultNext(c)
              /\ client' = Some(local[c].client)
              /\ accounts' = accounts
              /\ current_account_id' = current_account_id
              /\ current_account_id' = session_at_entry[c].v[2]]_vars

\* the user fetch failed while a session was active: its account id stays,
\* beside the client of the new token
C34_FetchFailedOverSession ==
    \E c \in DOMAIN session_at_entry :
        /\ UserFetchFailed(c)
        /\ IsSome(current_account_id)
        /\ IsSome(client)

\* the user fetch failed in an Anonymous session
C34_FetchFailedAnonymous ==
    \E c \in DOMAIN session_at_entry :
        UserFetchFailed(c) /\ IsNone(current_account_id) /\ IsSome(client)

-----------------------------------------------------------------------------
(* complete_auth and a concurrent start_auth *)

\* connection c is between reading PENDING_OAUTH and the answer of the token
\* exchange
Exchanging(c) == pc[c] = "complete_auth_fetch"

\* C35: complete_auth holds the read guard of PENDING_OAUTH from its read of
\* the slot until the token exchange has answered, and no longer; all that
\* time the slot holds the record it read, whose client_id, client_secret and
\* instance are those of one start_auth; a start_auth replaces the slot only
\* when no complete_auth holds the guard.
C35_CompleteUsesOnePendingRecord ==
    /\ [](\A c \in Conns :
            /\ c \in pending_readers <=> Exchanging(c)
            /\ Exchanging(c) =>
                  /\ PENDING_OAUTH = Some(local[c].app_data)
                  /\ local[c].app_data.instance_url = local[c].instance_url
                  /\ LET app == RegisteredApp(local[c].instance_url)
                     IN  /\ local[c].app_data.client_id = app.client_id
                         /\ local[c].app_data.client_secret = app.client_secret)
    /\ [][PENDING_OAUTH' # PENDING_OAUTH => pending_readers = {}]_vars

\* a start_auth for another instance waits to write while a complete_auth is
\* in its token exchange
C35_StartWaitsForComplete ==
    \E c, w \in Conns :
        /\ Exchanging(c)
        /\ pc[w] = "start_auth_store"
        /\ local[w].instance_url # PENDING_OAUTH.v.instance_url

-----------------------------------------------------------------------------
(* a request to the instance and a concurrent change of the session *)

\* the handler of c is past the auth gate, at its remote call
InFlight(c) == pc[c] \notin {"read", "respond"}

\* C36: the client a handler goes on with after the auth gate is the one the
\* slot held when the request was taken up; while it waits for the instance,
\* the steps of auth.logout, auth.switch_account and auth.delete_account that
\* write the session slots can be taken; no step of the request writes the
\* slots; and it returns a Response to its id, a result or an API_ERROR.
C36_RequestRunsOnSnapshot ==
    /\ [](InFlight("c1") =>
            /\ session_at_entry["c1"].v[1] = Some(local["c1"].client)
            /\ pc["c2"] = "logout_clear_client" => ENABLED logout_clear_client("c2")
            /\ pc["c2"] = "logout_clear_id" => ENABLED logout_clear_id("c2")
            /\ pc["c2"] = "switch_write_client" => ENABLED switch_write_client("c2")
            /\ pc["c2"] = "switch_write_id" => ENABLED switch_write_id("c2")
            /\ pc["c2"] = "delete_clear_client" => ENABLED delete_clear_client("c2")
            /\ pc["c2"] = "delete_clear_id" => ENABLED delete_clear_id("c2"))
    /\ [][/\ pc'["c1"] # pc["c1"] =>
                <<client, current_account_id>>' = <<client, current_account_id>>
          /\ (InFlight("c1") /\ pc'["c1"] = "respond") =>
                /\ response'["c1"].v.message_type = "response"
                /\ response'["c1"].v.id = msg["c1"].v.id
                /\ \/ SucceededNext("c1")
                   \/ FailedNext("c1") /\ ErrorCodeNext("c1") = API_ERROR]_vars

\* timeline.get has returned a result although the client slot was emptied
\* after the request had been taken up with a client
C36_AnsweredAfterLogout ==
    /\ Responded("c1", TIMELINE_GET)
    /\ Succeeded("c1")
    /\ IsSome(session_at_entry["c1"].v[1])
    /\ IsNone(client)

-----------------------------------------------------------------------------
(* handle_message and the envelope type *)

\* C37: whatever the type of the frame handle_message is given, it is
\* answered once, with a message of type response that carries its id, and
\* the arm is chosen by the method alone: METHOD_NOT_FOUND exactly when the
\* method is absent or has no arm, the result of ping or shutdown for those
\* two names.
C37_RoutedByMethodOnly ==
    /\ [](\A c \in Conns :
            pc[c] = "respond" =>
                /\ msg[c].v.message_type \in MessageTypes
                /\ IsSome(response[c])
                /\ response[c].v.message_type = "response"
                /\ response[c].v.id = msg[c].v.id
                /\ (Failed(c) /\ ErrorCode(c) = METHOD_NOT_FOUND)
                      <=> MethodOf(msg[c].v) \notin Methods
                /\ MethodOf(msg[c].v) = PING =>
                      Succeeded(c) /\ "pong" \in DOMAIN Result(c)
                /\ MethodOf(msg[c].v) = SHUTDOWN =>
                      Succeeded(c) /\ "status" \in DOMAIN Result(c))
    /\ [][\A c \in Conns :
            response'[c] # response[c] =>
                \/ pc[c] # "respond" /\ pc'[c] = "respond" /\ IsNone(response[c])
                \/ pc[c] = "respond" /\ pc'[c] = "read" /\ IsNone(response'[c])]_vars

\* a frame of type event that names timeline.get has been served by the
\* timeline handler, with a remote call
C37_EventServed ==
    \E c \in Conns :
        /\ Responded(c, TIMELINE_GET)
        /\ msg[c].v.message_type = "event"
        /\ Succeeded(c)
        /\ "get_timeline" \in calls[c]

\* a frame of type response without a method has been answered with
\* METHOD_NOT_FOUND
C37_ResponseFrameWithoutMethod ==
    \E c \in Conns :
        /\ pc[c] = "respond"
        /\ msg[c].v.message_type = "response"
        /\ IsNone(msg[c].v.method)
        /\ Failed(c) /\ ErrorCode(c) = METHOD_NOT_FOUND

-----------------------------------------------------------------------------
(* the shutdown method *)

\* the step in which handle_message takes up a shutdown request
ShutdownTaken(c) ==
    /\ pc[c] = "read"
    /\ pc'[c] # "read"
    /\ IsSome(msg'[c])
    /\ MethodOf(msg'[c].v) = SHUTDOWN

\* C38: a shutdown request is answered at once with the result
\* {status: shutting_down}; no remote call is made; the session slots, the
\* pending slot, the accounts and the settings stay as they were; the
\* shutdown signal is not sent and the listener, the socket path and the
\* other connections stay as they were, so that a peer the listener could
\* accept before it can accept after.
C38_ShutdownRequestInert ==
    [][\A c \in Conns :
          ShutdownTaken(c) =>
              /\ pc'[c] = "respond"
              /\ SucceededNext(c)
              /\ ResultNext(c) = [status |-> "shutting_down"]
              /\ calls'[c] = {}
              /\ UNCHANGED <<client, current_account_id, PENDING_OAUTH,
                             accounts, settings>>
              /\ UNCHANGED <<listener, shutdown_signal, socket_path>>
              /\ \A d \in Conns \ {c} : pc'[d] = pc[d]]_vars

\* a shutdown request has been answered while a session, a pending
\* authorization and a stored account exist; the listener has not been
\* signalled and can accept the peer that has not connected yet
C38_AnsweredAndAccepting ==
    /\ Responded("c1", SHUTDOWN)
    /\ Result("c1") = [status |-> "shutting_down"]
    /\ IsSome(client) /\ IsSome(current_account_id)
    /\ IsSome(PENDING_OAUTH)
    /\ DOMAIN accounts # {}
    /\ listener = "listening"
    /\ ~shutdown_signal
    /\ pc["c2"] = "unconnected"
    /\ ENABLED accept("c2")

-----------------------------------------------------------------------------
(* timeline.get: the cursors of a page *)

\* the request of the timeline.get connection c has been answered to
RequestOf(c) == TimelineRequestOf(msg[c].v.params.v).v
LimitOf(c) == IF IsSome(RequestOf(c).limit) THEN RequestOf(c).limit.v ELSE DefaultLimit
StubbedTimelineTypes == {"notifications", "direct"}

\* the cursors of a result: the first and the last post, has_more exactly
\* when the page is as long as the limit
CursorsOf(c) ==
    LET posts == Result(c).posts
    IN  /\ Result(c).max_id = IF posts = <<>> THEN None ELSE Some(posts[1])
        /\ Result(c).min_id = IF posts = <<>> THEN None ELSE Some(posts[Len(posts)])
        /\ Result(c).has_more <=> Len(posts) = LimitOf(c)

\* C39: every timeline.get result has max_id the first post, min_id the last
\* (both absent without posts) and has_more exactly when the page is as long
\* as the limit, 20 when absent; for notifications and direct no remote call
\* is made, the page is empty, the cursors are absent and has_more is false
\* whatever the limit.
C39_TimelineCursors ==
    \A c \in Conns :
        (Responded(c, TIMELINE_GET) /\ Succeeded(c)) =>
            /\ CursorsOf(c)
            /\ RequestOf(c).timeline_type.kind \in StubbedTimelineTypes =>
                  /\ calls[c] = {}
                  /\ Result(c).posts = <<>>
                  /\ IsNone(Result(c).max_id) /\ IsNone(Result(c).min_id)
                  /\ ~Result(c).has_more

\* the same, has_more of the stubbed types left to the rule of the others
C39_TimelineCursorsByRule ==
    \A c \in Conns :
        (Responded(c, TIMELINE_GET) /\ Succeeded(c)) =>
            /\ CursorsOf(c)
            /\ RequestOf(c).timeline_type.kind \in StubbedTimelineTypes =>
                  /\ calls[c] = {}
                  /\ Result(c).posts = <<>>
                  /\ IsNone(Result(c).max_id) /\ IsNone(Result(c).min_id)

=============================================================================
